---- MODULE Spec2Model ----
(***************************************************************************)
(* Phase balancer (pbr*.py) and load scheduler (loads*.py) of the          *)
(* homeassistant-appdaemon-configuration repository, as a state machine.   *)
(*                                                                         *)
(* Powers are whole watts (the inverter's entities report whole watts),    *)
(* so round() and int() of the source are the identity on them.  Time is   *)
(* whole seconds.  A timestamp t of the source (last_command_time, a cache *)
(* entry's timestamp) is kept as its age now - t, saturating at the        *)
(* largest threshold it is ever compared with: every comparison of the     *)
(* source has the form now - t < k or now - t <= k, so the age decides it. *)
(***************************************************************************)
EXTENDS Integers, Sequences, FiniteSets, TLC

VARIABLES
    tools,                    \* self.tools[*].last_command_time (as ages), not_realized_count
    mode_manager,             \* self.mode_manager: its current_mode and current_source
    previous_heating_active,  \* self.previous_heating_active
    sensor_data,              \* DataManager.sensor_data: age and value per entity
    fast_trigger,             \* FastPhaseTrigger: phase_history, _listeners, and the age
                              \* of last_control_loop_execution
    timers,                   \* seconds until run_in and run_every fire the control loop
    calls,                    \* the service calls the last handler issued, in order
    debug_mode,               \* Config.debug_mode: the balancer only logs what it proposes
    applied_mode,             \* the mode _apply_mode_initial_state was last called with
    received,                 \* per phase, the updates delivered since the listeners were
                              \* registered, counted up to the length of the history
    ev,                       \* the last handler run: its inputs and what it decided
    price_cache,              \* LoadsPriceManager._cache: the slot list per date key
    devices,                  \* LoadsScheduler.devices: configuration and scheduled_slots
    shelly,                   \* the schedules held by the Shelly of each device
    app,                      \* LoadSchedulingApp: scheduler.price_slots (as the date key of
                              \* the cached list), recent_recoveries, schedule_calculated_at
    disk,                     \* the content of loads_api_data.json, None without a file
    clock,                    \* local time, in minutes from midnight of day 0
    lev                       \* the last run of the load scheduler: what it was given

vars == <<tools, mode_manager, previous_heating_active, sensor_data, fast_trigger,
          timers, calls, debug_mode, applied_mode, received, ev,
          price_cache, devices, shelly, app, disk, clock, lev>>
loadsVars == <<price_cache, devices, shelly, app, disk, clock, lev>>
pbrVars == <<mode_manager, previous_heating_active, sensor_data, fast_trigger, timers>>

-----------------------------------------------------------------------------
(* pbr_config.py                                                           *)

max_battery_power == 5000
max_feed_grid_power == 8800
battery_soc_minimum_for_discharging == 6
forced_charge_discharge_cooldown == 5
charging_adjustment_cooldown == 3
export_limit_cooldown == 3
minimum_charging_adjustment_watts == 10
minimum_export_limit_change_watts == 200
minimum_discharge_change_watts == 10
minimum_discharge_reduction_watts == 10

FC == "forced_charging"
FD == "forced_discharging"
CA == "charging_adjustment"
EL == "export_limitation"
DL == "discharge_limitation"
ToolNames == {FC, FD, CA, EL, DL}

\* the largest cooldown: an age is kept up to it
AgeCap == forced_charge_discharge_cooldown

Abs(x) == IF x < 0 THEN -x ELSE x
Max(a, b) == IF a >= b THEN a ELSE b
Min(a, b) == IF a <= b THEN a ELSE b

-----------------------------------------------------------------------------
(* A handler's working context: the tools' state it updates, the service   *)
(* calls it has issued so far, and the way its last tool call returned.    *)

Ctx(t) == [lct |-> t.lct, nrc |-> t.nrc, calls |-> <<>>, ret |-> FALSE, why |-> "none"]

\* self.hass.call_service(...), issued from tool `by`
Call(c, by, svc, v) == [c EXCEPT !.calls = Append(@, [by |-> by, svc |-> svc, v |-> v])]

\* self.last_command_time = now; return True
Issued(c, tool) == [c EXCEPT !.lct[tool] = 0, !.ret = TRUE, !.why = "issued"]

\* return False on the path `why`
Skipped(c, why) == [c EXCEPT !.ret = FALSE, !.why = why]

-----------------------------------------------------------------------------
(* pbr_tools.py                                                            *)

\* The forcible-charge status "Stopped" / "Charging at <w>W" / "Discharging at <w>W" /
\* anything else, as [kind, w]; the signed power parsed from it.
get_current_forced_power(forced) ==
    IF forced.kind = "Charging" THEN forced.w
    ELSE IF forced.kind = "Discharging" THEN -forced.w
    ELSE 0

\* tolerance = max(200.0, abs(flow) * (1.0 - 0.85)); realized = difference <= tolerance,
\* both sides times 100 to stay in the integers
realization_min_tolerance == 200
realization_tolerance_percent == 15

is_forced_power_realized_always(ss) == TRUE

is_forced_power_realized(ss) ==
    IF ~ss.valid THEN TRUE
    ELSE IF ss.forced_power_flow = 0 THEN TRUE
    ELSE LET tolerance100 == Max(realization_min_tolerance * 100,
                                 Abs(ss.forced_power_flow) * realization_tolerance_percent)
             difference == Abs(ss.battery_power - ss.forced_power_flow)
         IN  difference * 100 <= tolerance100

\* get_system_state() returning None
NoState == [valid |-> FALSE, forced_power_flow |-> 0, battery_power |-> 0]

Clamp(x, hi) == IF x > hi THEN hi ELSE IF x < 0 THEN 0 ELSE x

ForcedChargingStop_no_cooldown(c) ==
    Issued(Call(c, FC, "stop_forcible_charge", 0), FC)

ForcedChargingStop(c) ==
    IF c.lct[FC] < forced_charge_discharge_cooldown
    THEN Skipped(c, "cooldown")
    ELSE Issued(Call(c, FC, "stop_forcible_charge", 0), FC)

ForcedChargingExecute(c, ha, ss, target, mode_transition) ==
    IF ~mode_transition /\ ~is_forced_power_realized(ss)
    THEN Skipped(c, "not_realized")
    ELSE
    LET target_power == Clamp(target, max_battery_power)
        current_power == get_current_forced_power(ha.forced)
        is_charging == ha.forced.kind = "Charging"
        c1 == IF ha.climit < target_power
              THEN Call(c, FC, "set_charge_limit", Max(target_power, max_battery_power))
              ELSE c
    IN  IF target_power = 0 THEN ForcedChargingStop(c)
        ELSE IF is_charging /\ current_power = target_power THEN Skipped(c, "same")
        ELSE IF /\ c.lct[FC] < forced_charge_discharge_cooldown
                /\ ~mode_transition
                /\ is_charging
             THEN Skipped(c, "cooldown")
        ELSE Issued(Call(c1, FC, "forcible_charge_soc", target_power), FC)

ForcedDischargingStop(c) ==
    IF c.lct[FD] < forced_charge_discharge_cooldown
    THEN Skipped(c, "cooldown")
    ELSE Issued(Call(c, FD, "stop_forcible_charge", 0), FD)

\* "if self.not_realized_count < 3"
not_realized_limit == 3

ForcedDischargingGate(nrc, emergency) == nrc < not_realized_limit /\ ~emergency

ForcedDischargingExecute(c, ha, ss, target, emergency, mode_transition) ==
    LET realized == is_forced_power_realized(ss)
        c0 == IF realized THEN [c EXCEPT !.nrc = 0]
              ELSE IF ~mode_transition THEN [c EXCEPT !.nrc = @ + 1]
              ELSE c
    IN
    IF ~realized /\ ~mode_transition /\ ForcedDischargingGate(c0.nrc, emergency)
    THEN Skipped(c0, "not_realized")
    ELSE
    LET target_power == Clamp(target, max_battery_power)
        current_power == Abs(get_current_forced_power(ha.forced))
        is_discharging == ha.forced.kind = "Discharging"
        c1 == IF ha.dlimit < target_power
              THEN Call(c0, FD, "set_discharge_limit", Max(target_power, max_battery_power))
              ELSE c0
    IN  IF target_power = 0 THEN ForcedDischargingStop(c0)
        ELSE IF is_discharging /\ current_power = target_power THEN Skipped(c0, "same")
        ELSE IF /\ c0.lct[FD] < forced_charge_discharge_cooldown
                /\ ~mode_transition
                /\ is_discharging
                /\ ~emergency
             THEN Skipped(c0, "cooldown")
        ELSE Issued(Call(c1, FD, "forcible_discharge_soc", target_power), FD)

ChargingAdjustmentExecute(c, ha, target) ==
    LET target_rate == Clamp(target, max_battery_power)
        current_rate == ha.climit
        change == Abs(target_rate - current_rate)
    IN  IF change < minimum_charging_adjustment_watts THEN Skipped(c, "too_small")
        ELSE IF current_rate = target_rate THEN Skipped(c, "same")
        ELSE IF c.lct[CA] < charging_adjustment_cooldown THEN Skipped(c, "cooldown")
        ELSE Issued(Call(c, CA, "set_charge_limit", target_rate), CA)

ChargingAdjustmentReset(c, ha) == ChargingAdjustmentExecute(c, ha, max_battery_power)

DischargeLimitationExecute(c, ha, target) ==
    LET target_rate == Clamp(target, max_battery_power)
        current_limit == ha.dlimit
        change == Abs(target_rate - current_limit)
    IN  IF change < minimum_charging_adjustment_watts THEN Skipped(c, "too_small")
        ELSE IF c.lct[DL] < charging_adjustment_cooldown THEN Skipped(c, "cooldown")
        ELSE Issued(Call(c, DL, "set_discharge_limit", target_rate), DL)

\* The inverter's active-power-control state, as [kind, v]: "Unknown" (or missing), a
\* number v, or a text holding "unlimited"/"maximum", "zero", a number v, or none of these.
\* The result is [limit, mode].
get_current_export_limit(export) ==
    IF export.kind = "Unknown" THEN [limit |-> 0, mode |-> "unknown"]
    ELSE IF export.kind = "num"
    THEN IF export.v = 0 THEN [limit |-> 0, mode |-> "zero"]
         ELSE IF export.v >= max_feed_grid_power
              THEN [limit |-> max_feed_grid_power, mode |-> "unlimited"]
         ELSE [limit |-> export.v, mode |-> "limited"]
    ELSE IF export.kind = "text_unlimited"
    THEN [limit |-> max_feed_grid_power, mode |-> "unlimited"]
    ELSE IF export.kind = "text_zero" THEN [limit |-> 0, mode |-> "zero"]
    ELSE IF export.kind = "text_digits" THEN [limit |-> export.v, mode |-> "limited"]
    ELSE [limit |-> max_feed_grid_power, mode |-> "unlimited"]

ExportLimitationExecute(c, ha, target) ==
    LET target_limit == Clamp(target, max_feed_grid_power)
        cur == get_current_export_limit(ha.export)
    IN  IF cur.mode = "unlimited" /\ target_limit >= max_feed_grid_power
        THEN Skipped(c, "same")
        ELSE IF cur.mode = "limited" /\ cur.limit = target_limit THEN Skipped(c, "same")
        ELSE IF /\ cur.mode = "limited"
                /\ target_limit < max_feed_grid_power
                /\ Abs(target_limit - cur.limit) < minimum_export_limit_change_watts
             THEN Skipped(c, "too_small")
        ELSE IF c.lct[EL] < export_limit_cooldown THEN Skipped(c, "cooldown")
        ELSE IF target_limit >= max_feed_grid_power
             THEN Issued(Call(c, EL, "reset_maximum_feed_grid_power", 0), EL)
        ELSE Issued(Call(c, EL, "set_maximum_feed_grid_power", target_limit), EL)

ExportLimitationReset(c, ha) == ExportLimitationExecute(c, ha, max_feed_grid_power)

-----------------------------------------------------------------------------
(* Home Assistant as a handler sees it: one reading per entity, the same   *)
(* for every get_state() of the handler.  A numeric entity reads as a      *)
(* number, as a text that is no number ('unavailable'), or not at all      *)
(* (get_state() returns None); a text entity as its text, "None" when      *)
(* get_state() returns None.                                               *)

None == [k |-> "none", v |-> 0]
Bad == [k |-> "bad", v |-> 0]
Num(n) == [k |-> "num", v |-> n]

(* pbr_data_manager.py                                                     *)

PhaseSensors == <<"phase_a", "phase_b", "phase_c">>
CriticalSensors ==
    {"phase_a", "phase_b", "phase_c", "total", "soc", "battery_power", "target"}
TextSensors == {"mode", "source", "heating"}
CachedSensors == CriticalSensors \cup TextSensors

power_max_age == 30
config_max_age == 120
power_invalid_age == 300
config_invalid_age == 3600

max_age(e) == IF e \in CriticalSensors \ {"target"} THEN power_max_age ELSE config_max_age
invalid_age(e) == IF e = "target" THEN config_invalid_age ELSE power_invalid_age

\* an entry's age is kept up to the first value past every limit it is compared with
AgeLimit(e) == IF e \in CriticalSensors THEN invalid_age(e) + 1 ELSE max_age(e) + 1

Uncached == -1
NoneOf(e) == IF e \in TextSensors THEN "None" ELSE None
NoEntry(e) == [age |-> Uncached, value |-> NoneOf(e)]

Reading(ha, e) ==
    CASE e = "phase_a" -> ha.phases[1]
      [] e = "phase_b" -> ha.phases[2]
      [] e = "phase_c" -> ha.phases[3]
      [] e = "total" -> ha.total
      [] e = "soc" -> ha.soc
      [] e = "battery_power" -> ha.battery_power
      [] e = "target" -> ha.target
      [] e = "mode" -> ha.mode
      [] e = "source" -> ha.source
      [] e = "heating" -> ha.heating

IsNone(e, x) == IF e \in TextSensors THEN x = "None" ELSE x.k = "none"

\* update_sensor: the value (as a float when it is a number) with timestamp now
update_sensor(sd, e, value) == [sd EXCEPT ![e] = [age |-> 0, value |-> value]]

\* the loop over Config.sensor_entities at the start of a control cycle
RefreshSensors(sd, ha) ==
    [e \in CachedSensors |->
        IF IsNone(e, Reading(ha, e)) THEN sd[e]
        ELSE [age |-> 0, value |-> Reading(ha, e)]]

is_invalid_sensor_value(e, x) ==
    IF e \in TextSensors THEN x \in {"None", "unavailable", "unknown", "none", ""}
    ELSE x.k # "num"

default_phase_target == 20

get_fallback_value(e) ==
    CASE e = "mode" -> "normal"
      [] e = "source" -> "optimizer"
      [] e = "heating" -> "off"
      [] e = "target" -> Num(default_phase_target)
      [] OTHER -> NoneOf(e)

\* What get_sensor_value finds before validation, and the cache entry it leaves: the
\* cached value while fresh; else the entity's state, cached, unless that is None, and
\* then the stale value.  (The 5 s throttle between two refresh attempts of a stale
\* entry is not kept: it only delays the second branch.)
fetch_value(sd, ha, e) ==
    LET live == Reading(ha, e)
        fetched == [value |-> live, entry |-> [age |-> 0, value |-> live]]
        kept == [value |-> sd[e].value, entry |-> sd[e]]
    IN  IF sd[e].age = Uncached
        THEN IF IsNone(e, live) THEN kept ELSE fetched
        ELSE IF sd[e].age <= max_age(e) THEN kept
        ELSE IF IsNone(e, live) THEN kept
        ELSE fetched

get_sensor_value(sd, ha, e, use_fallback) ==
    LET x == fetch_value(sd, ha, e).value
    IN  IF IsNone(e, x) THEN x
        ELSE IF is_invalid_sensor_value(e, x)
             THEN IF use_fallback THEN get_fallback_value(e) ELSE NoneOf(e)
        ELSE x

\* the cache after get_sensor_value has been called for each entity of E
touch_sensors(sd, ha, E) ==
    [e \in CachedSensors |-> IF e \in E THEN fetch_value(sd, ha, e).entry ELSE sd[e]]

is_sensor_valid_once_cached(sd, e) == sd[e].age # Uncached

is_sensor_valid(sd, e) == sd[e].age # Uncached /\ sd[e].age <= invalid_age(e)

is_system_valid(sd) == \A e \in CriticalSensors : is_sensor_valid(sd, e)

SeqMin(q) == CHOOSE x \in {q[i] : i \in 1..Len(q)} : \A i \in 1..Len(q) : x <= q[i]

\* the forced power as the data manager parses it from the same status text
get_current_forced_power_flow(forced) ==
    IF forced.kind = "Stopped" THEN 0
    ELSE IF forced.kind = "Discharging" THEN -forced.w
    ELSE IF forced.kind = "Charging" THEN forced.w
    ELSE 0

get_system_state(sd, ha) ==
    IF ~is_system_valid(sd) THEN NoState
    ELSE
    LET p == [i \in 1..3 |-> get_sensor_value(sd, ha, PhaseSensors[i], TRUE)]
    IN  IF \E i \in 1..3 : p[i].k # "num" THEN NoState
        ELSE [valid |-> TRUE,
              phases |-> [i \in 1..3 |-> p[i].v],
              most_negative |-> SeqMin([i \in 1..3 |-> p[i].v]),
              battery_soc |-> get_sensor_value(sd, ha, "soc", TRUE).v,
              solar_input |-> ha.solar,
              charging_rate_limit |-> ha.climit,
              discharging_rate_limit |-> ha.dlimit,
              battery_power |-> get_sensor_value(sd, ha, "battery_power", TRUE).v,
              forced_power_flow |-> get_current_forced_power_flow(ha.forced),
              heating_active |-> get_sensor_value(sd, ha, "heating", TRUE) = "on",
              boiler_outside_hours |-> ha.boiler_outside_hours]

-----------------------------------------------------------------------------
(* pbr_modes.py and the mode validation of pbr.py                          *)

ValidModes ==
    {"normal", "limitexport", "pvsell", "nobattery", "savebattery", "buy", "sell",
     "frrup", "frrdown"}
mfrr_modes == {"frrup", "frrdown"}
kratt_only_source == "kratt"
valid_qw_sources == {"timer", "notimer", "optimizer", "manual", "kratt"}

mode_initial_states ==
    [m \in ValidModes |->
        [export_limit |-> IF m = "limitexport" THEN "keep" ELSE "maximum",
         charging_limit |-> IF m = "pvsell" THEN "zero" ELSE "maximum",
         discharge_limit |-> IF m \in {"nobattery", "savebattery"} THEN "zero"
                             ELSE "maximum",
         forced_charge_discharge |-> "stop"]]

mode_tool_sequences ==
    [m \in ValidModes |->
        CASE m = "limitexport" -> <<CA, EL, FD>>
          [] m = "nobattery" -> <<FD, CA>>
          [] m = "buy" -> <<FC>>
          [] m = "sell" -> <<FD>>
          [] m = "frrup" -> <<"load_switching", CA, FD>>
          [] m = "frrdown" -> <<"load_switching", DL, CA, FC>>
          [] OTHER -> <<CA, FD>>]

Reverse(q) == [i \in 1..Len(q) |-> q[Len(q) + 1 - i]]

get_tool_sequence(mode, surplus) ==
    IF surplus THEN Reverse(mode_tool_sequences[mode]) ELSE mode_tool_sequences[mode]

\* Config.qw_mode_mappings maps each of the nine names to itself
map_qw_mode(qw_mode) == qw_mode

is_valid_mode(mode) == mode \in ValidModes

is_valid_source_for_mode(mode, source) ==
    IF mode \in mfrr_modes THEN source = kratt_only_source
    ELSE source \in valid_qw_sources /\ source # kratt_only_source

is_fixed_power_mode(mode) == mode \in {"buy", "sell"}

determine_current_mode_any_source(qw_mode, qw_source) ==
    IF is_valid_mode(map_qw_mode(qw_mode)) THEN map_qw_mode(qw_mode) ELSE "None"

\* "None" when the cycle is to be skipped
determine_current_mode(qw_mode, qw_source) ==
    LET internal_mode == map_qw_mode(qw_mode)
    IN  IF internal_mode = "None" \/ ~is_valid_mode(internal_mode) THEN "None"
        ELSE IF ~is_valid_source_for_mode(internal_mode, qw_source) THEN "None"
        ELSE internal_mode

MM == "mode_manager"

execute_mode_primary_tool(c, ha, dm_ss, mode) ==
    LET target_power == ha.powerlimit
    IN  IF mode = "buy" /\ target_power > 0
        THEN ForcedChargingExecute(c, ha, dm_ss, target_power, TRUE)
        ELSE IF mode = "sell" /\ target_power > 0
        THEN ForcedDischargingExecute(c, ha, dm_ss, target_power, FALSE, TRUE)
        ELSE c

apply_mode_initial_state(c, ha, dm_ss, mode) ==
    LET initial_state == mode_initial_states[mode]
        c1 == IF /\ initial_state.forced_charge_discharge = "stop"
                 /\ ha.forced.kind \in {"Charging", "Discharging"}
              THEN ForcedDischargingStop(ForcedChargingStop(c))
              ELSE c
        c2 == IF initial_state.export_limit = "maximum"
              THEN ExportLimitationReset(c1, ha)
              ELSE c1
        c3 == IF initial_state.charging_limit = "maximum"
              THEN ChargingAdjustmentReset(c2, ha)
              ELSE IF initial_state.charging_limit = "zero"
              THEN ChargingAdjustmentExecute(c2, ha, 0)
              ELSE c2
        c4 == IF initial_state.discharge_limit = "maximum"
              THEN Call(c3, MM, "set_discharge_limit", max_battery_power)
              ELSE IF initial_state.discharge_limit = "zero"
              THEN Call(c3, MM, "set_discharge_limit", 0)
              ELSE c3
    IN  execute_mode_primary_tool(c4, ha, dm_ss, mode)

\* the working context and the manager's (current_mode, current_source) afterwards
handle_mode_change(c, ha, dm_ss, mm, new_mode, new_source) ==
    IF new_mode = mm.current_mode /\ new_source = mm.current_source
    THEN [c |-> c, mm |-> mm, changed |-> FALSE]
    ELSE [c |-> apply_mode_initial_state(c, ha, dm_ss, new_mode),
          mm |-> [current_mode |-> new_mode, current_source |-> new_source],
          changed |-> TRUE]

-----------------------------------------------------------------------------
(* pbr_state.py: the battery_flow_change of the desired state.             *)

mfrr_deadband == 15

calculate_mode_energy_flow(mode, ha, ss, net_power_adjustment) ==
    IF is_fixed_power_mode(mode)
    THEN IF mode = "buy" THEN -ha.powerlimit ELSE ha.powerlimit
    ELSE IF mode \in mfrr_modes
    THEN LET target_grid_flow == IF mode = "frrdown" THEN -ha.powerlimit
                                 ELSE ha.powerlimit
             current_grid_flow == ss.phases[1] + ss.phases[2] + ss.phases[3]
             grid_flow_adjustment == target_grid_flow - current_grid_flow
         IN  IF Abs(grid_flow_adjustment) < mfrr_deadband THEN 0
             ELSE -grid_flow_adjustment
    ELSE IF mode \in {"nobattery", "savebattery"} THEN 0
    ELSE IF mode = "pvsell" THEN -Max(0, -net_power_adjustment)
    ELSE net_power_adjustment

\* [ok, battery_flow_change]; ok is FALSE when calculate_desired_state returns None
calculate_desired_state_open_range(sd, ha, ss, mode) ==
    LET target_phase == get_sensor_value(sd, ha, "target", TRUE)
    IN  IF target_phase.k # "num" THEN [ok |-> FALSE, battery_flow_change |-> 0]
        ELSE IF ha.range_low < ss.most_negative /\ ss.most_negative < ha.range_high
        THEN [ok |-> TRUE, battery_flow_change |-> 0]
        ELSE
        LET power_balance == ss.most_negative - target_phase.v
            total_power_adjustment == power_balance * 3
            flow == calculate_mode_energy_flow(mode, ha, ss, total_power_adjustment)
            soc_too_low == ss.battery_soc < battery_soc_minimum_for_discharging
            load_protection == ss.heating_active \/ ss.boiler_outside_hours
            blocked == /\ mode \notin mfrr_modes
                       /\ soc_too_low \/ load_protection
                       /\ flow > 0
        IN  [ok |-> TRUE, battery_flow_change |-> IF blocked THEN 0 ELSE flow]

calculate_desired_state(sd, ha, ss, mode) ==
    LET target_phase == get_sensor_value(sd, ha, "target", TRUE)
    IN  IF target_phase.k # "num" THEN [ok |-> FALSE, battery_flow_change |-> 0]
        ELSE IF ha.range_low <= ss.most_negative /\ ss.most_negative <= ha.range_high
        THEN [ok |-> TRUE, battery_flow_change |-> 0]
        ELSE
        LET power_balance == ss.most_negative - target_phase.v
            total_power_adjustment == power_balance * 3
            flow == calculate_mode_energy_flow(mode, ha, ss, total_power_adjustment)
            soc_too_low == ss.battery_soc < battery_soc_minimum_for_discharging
            load_protection == ss.heating_active \/ ss.boiler_outside_hours
            blocked == /\ mode \notin mfrr_modes
                       /\ soc_too_low \/ load_protection
                       /\ flow > 0
        IN  [ok |-> TRUE, battery_flow_change |-> IF blocked THEN 0 ELSE flow]

-----------------------------------------------------------------------------
(* pbr.py: the proposed actions.  A handler's result is [none, action,     *)
(* remaining]: none when it returns None, action NoAction when the dict    *)
(* holds no action.                                                        *)

NoAction == [tool |-> "none", target |-> 0]
Action(tool, target) == [tool |-> tool, target |-> target]
Handled(action, remaining) == [none |-> FALSE, action |-> action, remaining |-> remaining]
Unhandled == [none |-> TRUE, action |-> NoAction, remaining |-> 0]

handle_charging_adjustment(ss, flow_change, mode) ==
    LET current_charge_limit == ss.charging_rate_limit
        current_forced_flow == ss.forced_power_flow
    IN
    IF mode = "frrdown" /\ flow_change < 0
    THEN IF current_charge_limit < max_battery_power
         THEN Handled(Action(CA, max_battery_power), flow_change)
         ELSE Handled(NoAction, flow_change)
    ELSE IF flow_change > 0
    THEN IF current_forced_flow < 0 THEN Handled(NoAction, flow_change)
         ELSE LET increase_amount ==
                      Min(flow_change, max_battery_power - current_charge_limit)
              IN  IF increase_amount >= minimum_charging_adjustment_watts
                  THEN Handled(Action(CA, current_charge_limit + increase_amount),
                               flow_change - increase_amount)
                  ELSE Handled(NoAction, flow_change)
    ELSE IF flow_change < 0
    THEN LET energy_deficit == Abs(flow_change)
             current_battery_power == ss.battery_power
             from == IF current_battery_power > 0 THEN current_battery_power
                     ELSE current_charge_limit
             new_limit == IF current_battery_power < 0 THEN 0
                          ELSE Max(0, from - energy_deficit)
             reduction_achieved == IF current_battery_power < 0 THEN 0
                                   ELSE Min(from, energy_deficit)
             remaining_deficit == energy_deficit - reduction_achieved
         IN  IF Abs(new_limit - current_charge_limit) >= minimum_charging_adjustment_watts
             THEN Handled(Action(CA, new_limit),
                          IF remaining_deficit > 0 THEN -remaining_deficit ELSE 0)
             ELSE Handled(NoAction, flow_change)
    ELSE Unhandled

\* a balancer that never asks the battery for more: a deficit is handed on
hand_deficit_on(ss, dm_ss, flow_change, mode) ==
    IF flow_change < 0 THEN Handled(NoAction, flow_change) ELSE Unhandled

handle_forced_discharging(ss, dm_ss, flow_change, mode) ==
    IF ss.battery_soc <= battery_soc_minimum_for_discharging THEN Unhandled
    ELSE
    LET current_discharge == Max(0, -ss.forced_power_flow)
        discharging_limit == ss.discharging_rate_limit
    IN
    IF mode \in {"buy", "sell"}
    THEN LET target_power == Abs(flow_change)
         IN  IF Abs(current_discharge - target_power) < minimum_discharge_change_watts
             THEN Handled(NoAction, 0)
             ELSE Handled(Action(FD, target_power), 0)
    ELSE IF flow_change > 0
    THEN LET reduction == Min(flow_change, current_discharge)
         IN  IF /\ current_discharge > 0
                /\ \/ reduction >= minimum_discharge_reduction_watts
                   \/ reduction = current_discharge
             THEN Handled(Action(FD, current_discharge - reduction),
                          flow_change - reduction)
             ELSE Handled(NoAction, flow_change)
    ELSE IF flow_change < 0
    THEN IF current_discharge > 0 /\ ~is_forced_power_realized(dm_ss)
         THEN Handled(NoAction, flow_change)
         ELSE LET max_additional == Min(max_battery_power - current_discharge,
                                        discharging_limit - current_discharge)
                  increase_amount == Min(Abs(flow_change), max_additional)
              IN  IF increase_amount >= minimum_discharge_change_watts
                  THEN Handled(Action(FD, current_discharge + increase_amount),
                               flow_change + increase_amount)
                  ELSE Handled(NoAction, flow_change)
    ELSE Unhandled

handle_forced_charging(ss, flow_change, mode) ==
    LET current_charging == Max(0, ss.forced_power_flow)
    IN
    IF mode \in {"buy", "sell"}
    THEN LET target_power == Abs(flow_change)
         IN  IF Abs(current_charging - target_power) < minimum_charging_adjustment_watts
             THEN Handled(NoAction, 0)
             ELSE Handled(Action(FC, target_power), 0)
    ELSE IF flow_change > 0
    THEN LET reduction == Min(flow_change, current_charging)
         IN  IF current_charging > 0 /\ reduction >= minimum_charging_adjustment_watts
             THEN Handled(Action(FC, current_charging - reduction),
                          flow_change - reduction)
             ELSE Handled(NoAction, flow_change)
    ELSE IF flow_change < 0
    THEN LET max_additional == max_battery_power - current_charging
             increase_amount == Min(Abs(flow_change), max_additional)
         IN  IF increase_amount >= minimum_charging_adjustment_watts
             THEN Handled(Action(FC, current_charging + increase_amount),
                          flow_change + increase_amount)
             ELSE Handled(NoAction, flow_change)
    ELSE Unhandled

handle_export_limitation(flow_change, mode) ==
    IF flow_change > 0 /\ mode = "limitexport"
    THEN Handled(Action(EL, 0), 0)
    ELSE Unhandled

\* The loop over the tool sequence: the actions proposed, or error when the loop
\* raises.  It raises at 'load_switching' (LoadSwitchingTool has no
\* get_proposed_action) and at 'discharge_limitation' (its handler returns a dict for
\* every flow the loop passes it, and the loop then reads remaining_from_tool, which
\* only the 'load_switching' branch assigns).
RECURSIVE walk_tool_sequence(_, _, _, _, _, _, _)
walk_tool_sequence(tool_sequence, i, battery_flow_change, actions, ss, dm_ss, mode) ==
    IF i > Len(tool_sequence) \/ Abs(battery_flow_change) < 1
    THEN [actions |-> actions, error |-> FALSE]
    ELSE
    LET tool_name == tool_sequence[i]
        r == CASE tool_name = CA ->
                    handle_charging_adjustment(ss, battery_flow_change, mode)
               [] tool_name = FC ->
                    handle_forced_charging(ss, battery_flow_change, mode)
               [] tool_name = FD ->
                    handle_forced_discharging(ss, dm_ss, battery_flow_change, mode)
               [] tool_name = EL ->
                    handle_export_limitation(battery_flow_change, mode)
               [] OTHER -> Unhandled
    IN  IF tool_name \in {"load_switching", DL}
        THEN [actions |-> actions, error |-> TRUE]
        ELSE IF r.none
        THEN walk_tool_sequence(tool_sequence, i + 1, battery_flow_change, actions,
                                ss, dm_ss, mode)
        ELSE walk_tool_sequence(tool_sequence, i + 1, r.remaining,
                                IF r.action = NoAction THEN actions
                                ELSE Append(actions, r.action),
                                ss, dm_ss, mode)

calculate_proposed_actions(ss, dm_ss, battery_flow_change, tool_sequence, mode) ==
    walk_tool_sequence(tool_sequence, 1,
                       IF mode = "frrdown" THEN -battery_flow_change
                       ELSE battery_flow_change,
                       <<>>, ss, dm_ss, mode)

(* pbr_action_executor.py                                                  *)

execute_action(c, ha, dm_ss, action) ==
    CASE action.tool = CA -> ChargingAdjustmentExecute(c, ha, action.target)
      [] action.tool = DL -> DischargeLimitationExecute(c, ha, action.target)
      [] action.tool = FC ->
            IF action.target = 0 THEN ForcedChargingStop(c)
            ELSE ForcedChargingExecute(c, ha, dm_ss, action.target, FALSE)
      [] action.tool = FD ->
            ForcedDischargingExecute(c, ha, dm_ss, action.target, FALSE, FALSE)
      [] action.tool = EL -> ExportLimitationExecute(c, ha, action.target)

RECURSIVE execute_actions(_, _, _, _, _)
execute_actions(c, ha, dm_ss, actions, i) ==
    IF i > Len(actions) THEN c
    ELSE execute_actions(execute_action(c, ha, dm_ss, actions[i]), ha, dm_ss,
                         actions, i + 1)

-----------------------------------------------------------------------------
(* pbr_fast_trigger.py                                                     *)

fast_trigger_threshold == -300
fast_trigger_minimum_interval == 10
fast_trigger_balancing_modes == {"normal", "limitexport", "pvsell"}
phase_history_maxlen == 2

\* subscribe: one listener per phase sensor, unless listeners are registered already
\* or the SOC is known to be at or below the minimum.  listeners is Len(_listeners).
subscribe(ft, soc) ==
    IF ft.listeners > 0 THEN ft
    ELSE IF soc.k = "num" /\ soc.v <= battery_soc_minimum_for_discharging THEN ft
    ELSE [ft EXCEPT !.listeners = @ + Len(PhaseSensors)]

unsubscribe(ft) == [ft EXCEPT !.listeners = 0]

update_subscription_at_minimum(ft, sd, ha) ==
    LET soc == get_sensor_value(sd, ha, "soc", TRUE)
    IN  IF soc.k # "num" THEN ft
        ELSE IF soc.v >= battery_soc_minimum_for_discharging
        THEN [ft EXCEPT !.listeners = Len(PhaseSensors)]
        ELSE unsubscribe(ft)

\* update_subscription: listen to the phases exactly while the SOC read is above the
\* minimum; an unreadable SOC leaves the subscription as it is
update_subscription(ft, sd, ha) ==
    LET soc == get_sensor_value(sd, ha, "soc", TRUE)
        should_be_subscribed ==
            soc.k = "num" /\ soc.v > battery_soc_minimum_for_discharging
        is_subscribed == ft.listeners > 0
    IN  IF soc.k # "num" THEN ft
        ELSE IF should_be_subscribed /\ ~is_subscribed THEN subscribe(ft, soc)
        ELSE IF ~should_be_subscribed /\ is_subscribed THEN unsubscribe(ft)
        ELSE ft

\* deque(maxlen=2).append
history_append(history, x) ==
    IF Len(history) < phase_history_maxlen THEN Append(history, x)
    ELSE Append(Tail(history), x)

-----------------------------------------------------------------------------
(* pbr.py: the control cycle.  st is [tools, mm, pha, sd, ft]: the tools,  *)
(* the mode manager, previous_heating_active, the sensor cache and the     *)
(* fast trigger before the cycle.  The result holds them after it, with    *)
(* the calls issued, the point the cycle ended at, the mode it determined, *)
(* whether the mode manager saw a transition, and how many calls had been  *)
(* issued after the heating steps and after the mode manager's.            *)

charge_allowed_modes == {"buy", "frrdown", "frrup", "savebattery", "nobattery", "normal"}
protection_skip_modes ==
    {"normal", "limitexport", "pvsell", "nobattery", "savebattery", "sell", "frrup"}

apply_heating_protection(c, ha, ss, mode) ==
    IF ~ss.heating_active THEN [c |-> c, ss |-> ss, skip |-> FALSE]
    ELSE
    LET c1 == IF ss.discharging_rate_limit > 0
              THEN DischargeLimitationExecute(c, ha, 0)
              ELSE c
        c2 == IF ss.forced_power_flow < 0 THEN ForcedDischargingStop(c1) ELSE c1
    IN  IF mode \in charge_allowed_modes
        THEN [c |-> c2,
              ss |-> [ss EXCEPT !.forced_power_flow = IF @ < 0 THEN 0 ELSE @,
                                !.discharging_rate_limit = 0],
              skip |-> FALSE]
        ELSE IF mode \in protection_skip_modes
        THEN [c |-> c2, ss |-> ss, skip |-> TRUE]
        ELSE [c |-> c, ss |-> ss, skip |-> FALSE]

\* the limit the heating-off restore asks for
restore_target(mode) ==
    IF mode_initial_states[mode].discharge_limit = "zero" THEN 0 ELSE max_battery_power

CycleOut(c, mm, pha, sd, ft, stage, mode, changed, n_protect, n_init) ==
    [c |-> c, mm |-> mm, pha |-> pha, sd |-> sd, ft |-> ft, stage |-> stage,
     mode |-> mode, changed |-> changed, n_protect |-> n_protect, n_init |-> n_init,
     qw_mode |-> "None", qw_source |-> "None"]

\* the same, with the mode and source texts the cycle got from the data manager
Read(out, qw_mode, qw_source) ==
    [out EXCEPT !.qw_mode = qw_mode, !.qw_source = qw_source]

\* the proposed actions and their execution, the mode manager and the state engine
\* having run (mc, desired)
cycle_balance(ha, sd, dm_ss, ft, pha, mode, hp, mc, desired) ==
    LET n_protect == Len(hp.c.calls)
        n_init == Len(mc.c.calls)
        flow == desired.battery_flow_change
        surplus_state ==
            IF mode \in mfrr_modes
            THEN \/ mode = "frrup" /\ flow > 0
                 \/ mode = "frrdown" /\ flow < 0
            ELSE flow > 0
        proposed == calculate_proposed_actions(hp.ss, dm_ss, flow,
                        get_tool_sequence(mode, surplus_state), mode)
    IN
    IF ~desired.ok
    THEN CycleOut(mc.c, mc.mm, pha, sd, ft, "no_desired_state", mode, mc.changed,
                  n_protect, n_init)
    ELSE IF ~is_system_valid(sd)
    THEN CycleOut(mc.c, mc.mm, pha, sd, ft, "system_invalid", mode, mc.changed,
                  n_protect, n_init)
    ELSE IF proposed.error
    THEN CycleOut(mc.c, mc.mm, pha, sd, ft, "walk_raised", mode, mc.changed,
                  n_protect, n_init)
    ELSE IF debug_mode
    THEN CycleOut(mc.c, mc.mm, pha, sd, ft, "logged", mode, mc.changed,
                  n_protect, n_init)
    ELSE CycleOut(execute_actions(mc.c, ha, dm_ss, proposed.actions, 1), mc.mm, pha,
                  sd, ft, "balancing", mode, mc.changed, n_protect, n_init)

\* the cycle from the heating protection's result hp on
cycle_protected(st, ha, sd, dm_ss, qw_source, ft, pha, mode, hp) ==
    IF hp.skip
    THEN CycleOut(hp.c, st.mm, pha, sd, ft, "protection_skip", mode, FALSE,
                  Len(hp.c.calls), Len(hp.c.calls))
    ELSE cycle_balance(ha, sd, dm_ss, ft, pha, mode, hp,
                       handle_mode_change(hp.c, ha, dm_ss, st.mm, mode, qw_source),
                       calculate_desired_state(sd, ha, hp.ss, mode))

\* the cycle from the system state dm_ss on, read through the refreshed cache sd
cycle_with_state(st, ha, sd, dm_ss) ==
    LET c0 == Ctx(st.tools)
    IN
    IF ~dm_ss.valid
    THEN CycleOut(c0, st.mm, st.pha, sd, st.ft, "no_state", "None", FALSE, 0, 0)
    ELSE
    LET qw_mode == get_sensor_value(sd, ha, "mode", TRUE)
        qw_source == get_sensor_value(sd, ha, "source", TRUE)
        current_mode == determine_current_mode(qw_mode, qw_source)
    IN
    IF current_mode = "None"
    THEN Read(CycleOut(c0, st.mm, st.pha, sd, st.ft, "no_mode", "None", FALSE, 0, 0),
              qw_mode, qw_source)
    ELSE
    Read(cycle_protected(
             st, ha, sd, dm_ss, qw_source, update_subscription(st.ft, sd, ha),
             IF dm_ss.heating_active THEN "True" ELSE "False", current_mode,
             apply_heating_protection(
                 IF st.pha = "True" /\ ~dm_ss.heating_active
                 THEN DischargeLimitationExecute(c0, ha, restore_target(current_mode))
                 ELSE c0,
                 ha, dm_ss, current_mode)),
         qw_mode, qw_source)

calculate_and_log_desired_state_ungated(st, ha) ==
    cycle_with_state(st, ha, RefreshSensors(st.sd, ha),
                     get_system_state(RefreshSensors(st.sd, ha), ha))

calculate_and_log_desired_state(st, ha) ==
    IF ha.actions # "on"
    THEN CycleOut(Ctx(st.tools), st.mm, st.pha, st.sd, st.ft, "actions_off", "None",
                  FALSE, 0, 0)
    ELSE cycle_with_state(st, ha, RefreshSensors(st.sd, ha),
                          get_system_state(RefreshSensors(st.sd, ha), ha))

\* the cache after get_system_state() has read through it
touch_system_state(sd, ha) ==
    IF ~is_system_valid(sd) THEN sd
    ELSE LET sd1 == touch_sensors(sd, ha, {"phase_a", "phase_b", "phase_c"})
         IN  IF ~get_system_state(sd, ha).valid THEN sd1
             ELSE touch_sensors(sd1, ha, {"total", "soc", "battery_power", "heating"})

should_trigger_no_lockout(history, ft, sd, ha) ==
    /\ Len(history) = phase_history_maxlen
    /\ \A k \in 1..Len(history) : history[k] <= fast_trigger_threshold
    /\ determine_current_mode(get_sensor_value(sd, ha, "mode", TRUE),
                              get_sensor_value(sd, ha, "source", TRUE))
         \in fast_trigger_balancing_modes

should_trigger(history, ft, sd, ha) ==
    /\ Len(history) = phase_history_maxlen
    /\ \A k \in 1..Len(history) : history[k] <= fast_trigger_threshold
    /\ determine_current_mode(get_sensor_value(sd, ha, "mode", TRUE),
                              get_sensor_value(sd, ha, "source", TRUE))
         \in fast_trigger_balancing_modes
    /\ ft.last_execution >= fast_trigger_minimum_interval

\* on_phase_update for phase i with the new state a number: the history grows; when
\* the trigger conditions hold and the cached system state does not show heating,
\* _triggered_control_loop stamps last_control_loop_execution and, unless it finds
\* heating active, runs the control cycle
on_phase_update(st, i, new, ha) ==
    LET history == history_append(st.ft.phase_history[i], new)
        ft1 == [st.ft EXCEPT !.phase_history[i] = history]
        idle(ft, sd) == CycleOut(Ctx(st.tools), st.mm, st.pha, sd, ft, "no_trigger",
                                 "None", FALSE, 0, 0)
    IN
    IF ~(Len(history) = phase_history_maxlen
         /\ \A k \in 1..Len(history) : history[k] <= fast_trigger_threshold)
    THEN idle(ft1, st.sd)
    ELSE
    LET sd1 == touch_sensors(st.sd, ha, {"mode", "source"})
    IN
    IF ~should_trigger(history, ft1, st.sd, ha) THEN idle(ft1, sd1)
    ELSE
    LET ss == get_system_state(sd1, ha)
        sd2 == touch_system_state(sd1, ha)
        ft2 == [ft1 EXCEPT !.last_execution = 0]
    IN
    IF ss.valid /\ ss.heating_active THEN idle(ft1, sd2)
    ELSE IF ~ss.valid /\ ha.heating = "on" THEN idle(ft2, sd2)
    ELSE calculate_and_log_desired_state(
             [tools |-> st.tools, mm |-> st.mm, pha |-> st.pha, sd |-> sd2,
              ft |-> ft2], ha)

-----------------------------------------------------------------------------
(* loads_prices.py                                                         *)
(*                                                                         *)
(* Time is counted in quarter-hours of local time from midnight of day 0:  *)
(* the day d begins at Midnight(d), and a timestamp's hour and calendar    *)
(* slot are read off its remainder in the day. total_price stands for the  *)
(* price in tenths of a cent per kWh; the fees and the VAT, which are the  *)
(* same for every slot of one hour, are left out of it.                    *)

slots_per_day == 96
quarters_per_hour == 4
max_retries == 3
window_hour == 22

Midnight(d) == d * slots_per_day
HourOf(ts) == (ts % slots_per_day) \div quarters_per_hour

PriceSlot(ts, price, idx, hour) ==
    [timestamp |-> ts, total_price |-> price, slot_index |-> idx, hour |-> hour,
     always_on |-> FALSE, always_off |-> FALSE]

\* What the API quotes for a quarter-hour: one of a few daily price curves
PriceCurves == {"flat", "night", "saw"}

SpotPrice(curve, ts) ==
    CASE curve = "flat"  -> 80
      [] curve = "night" -> IF HourOf(ts) < 7 \/ HourOf(ts) >= 22 THEN 40 ELSE 120
      [] curve = "saw"   -> 50 + 10 * ((ts % slots_per_day) % 7)

\* One pass of the retry loop for a fetched date. A response is what the API
\* answers to every attempt for that date: r.errors attempts fail before any entry
\* is read (connection, HTTP status, JSON), the later ones deliver r.n entries, the
\* consecutive quarter-hours from the start of the API's day, and raise on the next
\* entry when r.malformed. all_prices is kept as the runs [first, n] that the
\* attempts appended, in the order of the appends.
RECURSIVE fetch_attempts(_, _, _, _)
fetch_attempts(all_prices, first, r, attempt) ==
    IF attempt >= max_retries THEN all_prices
    ELSE IF attempt < r.errors THEN fetch_attempts(all_prices, first, r, attempt + 1)
    ELSE IF r.malformed
         THEN fetch_attempts(Append(all_prices, [first |-> first, n |-> r.n]),
                             first, r, attempt + 1)
    ELSE Append(all_prices, [first |-> first, n |-> r.n])

\* all_prices.sort(key=timestamp) followed by the window filter: the timestamps of
\* the entries within [window_start, window_end), in ascending order, each as often
\* as it was appended
Copies(all_prices, ts) ==
    Cardinality({i \in DOMAIN all_prices :
                    /\ all_prices[i].first <= ts
                    /\ ts < all_prices[i].first + all_prices[i].n})

RECURSIVE prices_22_22(_, _, _)
prices_22_22(all_prices, window_start, window_end) ==
    IF window_start >= window_end THEN <<>>
    ELSE IF window_end = window_start + 1
         THEN [k \in 1..Copies(all_prices, window_start) |-> window_start]
    ELSE prices_22_22(all_prices, window_start,
                      (window_start + window_end) \div 2)
         \o prices_22_22(all_prices, (window_start + window_end) \div 2, window_end)

\* _get_fallback_prices: expensive from 7 to 22, cheap at night
fallback_day == 65000
fallback_night == 35000

_get_fallback_prices(target_date) ==
    [p \in 1..slots_per_day |->
        PriceSlot(Midnight(target_date) + (p - 1),
                  IF 7 <= (p - 1) \div quarters_per_hour
                     /\ (p - 1) \div quarters_per_hour < 22
                  THEN fallback_day ELSE fallback_night,
                  p - 1,
                  (p - 1) \div quarters_per_hour)]

\* The reindexing of a window of 96 entries, else the fallback
reindex_or_fallback(window, curve, target_date) ==
    IF Len(window) = slots_per_day
    THEN [prices |-> [p \in 1..slots_per_day |->
                         PriceSlot(window[p], SpotPrice(curve, window[p]), p - 1,
                                   HourOf(window[p]))],
          source |-> "api"]
    ELSE [prices |-> _get_fallback_prices(target_date), source |-> "fallback"]

\* _fetch_from_elering: the previous day and the target day are fetched, the
\* entries sorted, the window from 22:00 to 22:00 cut out and counted. api gives
\* the curve, the quarter-hour of local time at which the API's day begins and the
\* responses for the two dates. The result is the list, with a note of its origin.
_fetch_from_elering(target_date, api) ==
    reindex_or_fallback(
        prices_22_22(
            fetch_attempts(
                fetch_attempts(<<>>, Midnight(target_date - 1) + api.day_start,
                               api.previous, 0),
                Midnight(target_date) + api.day_start, api.target, 0),
            Midnight(target_date - 1) + window_hour * quarters_per_hour,
            Midnight(target_date) + window_hour * quarters_per_hour),
        api.curve, target_date)

store_in_cache(cache, target_date, fetched) ==
    [prices |-> fetched.prices,
     cache |-> (target_date :> fetched.prices) @@ cache,
     source |-> fetched.source]

\* fetch_prices_for_date: the list returned and the cache after the call
fetch_prices_for_date(cache, target_date, api) ==
    IF target_date \in DOMAIN cache
    THEN [prices |-> cache[target_date], cache |-> cache, source |-> "cache"]
    ELSE store_in_cache(cache, target_date, _fetch_from_elering(target_date, api))

NoLev == [op |-> "none"]

\* LoadSchedulingApp before any calculation
NoApp == [price_date |-> None, recent_recoveries |-> <<>>, schedule_calculated_at |-> None]

LoadsInit ==
    /\ price_cache = <<>>
    /\ devices = <<>>
    /\ shelly = <<>>
    /\ app = NoApp
    /\ disk = None
    /\ clock = 0
    /\ lev = NoLev

-----------------------------------------------------------------------------
(* loads_config.py, loads_weather.py, loads_scheduler.py                   *)
(*                                                                         *)
(* An hour string such as "9-11,13" is kept as its comma-separated items,  *)
(* <<9, 11>> for a range and <<13>> for a single hour. always_on_price is  *)
(* in the unit of total_price. A list of n slots is a sequence whose       *)
(* position p holds the slot of index p - 1.                               *)

hours_per_day == 24

\* LoadDevice._parse_hour_ranges: the end of a range is not included
_parse_hour_ranges(hour_string) ==
    UNION {IF Len(hour_string[k]) = 2
           THEN hour_string[k][1]..(hour_string[k][2] - 1)
           ELSE {hour_string[k][1]} : k \in DOMAIN hour_string}

\* The slots of a set of calendar hours within a list of n slots (slot 0 = 22:00)
HourSlots(hours, n) ==
    {s \in {((h - window_hour) % hours_per_day) * quarters_per_hour + i :
                h \in hours, i \in 0..(quarters_per_hour - 1)} : s < n}

mark_always_on(prices, on_slots) ==
    [p \in DOMAIN prices |->
        IF (p - 1) \in on_slots THEN [prices[p] EXCEPT !.always_on = TRUE]
        ELSE prices[p]]

mark_always_off_keeping_on(prices, off_slots) ==
    [p \in DOMAIN prices |->
        IF (p - 1) \in off_slots THEN [prices[p] EXCEPT !.always_off = TRUE]
        ELSE prices[p]]

mark_always_off(prices, off_slots) ==
    [p \in DOMAIN prices |->
        IF (p - 1) \in off_slots
        THEN [prices[p] EXCEPT !.always_off = TRUE, !.always_on = FALSE]
        ELSE prices[p]]

\* LoadsScheduler._apply_slot_constraints: the list after the marks were written
_apply_slot_constraints(device, prices) ==
    mark_always_off(
        mark_always_on(prices,
                       HourSlots(_parse_hour_ranges(device.always_on_hours), Len(prices))),
        HourSlots(_parse_hour_ranges(device.always_off_hours), Len(prices)))

\* The always_on_price constraint of _calc_device_schedule
apply_always_on_price(device, prices) ==
    IF device.always_on_price = None THEN prices
    ELSE [p \in DOMAIN prices |->
             IF prices[p].total_price < device.always_on_price.v
                /\ ~prices[p].always_off
             THEN [prices[p] EXCEPT !.always_on = TRUE]
             ELSE prices[p]]

\* WeatherManager.get_heating_requirement: forecast is the number of slots the
\* forecast asks for, None when no forecast could be fetched
get_heating_requirement(forecast, min_slots) ==
    IF forecast = None THEN min_slots ELSE Max(forecast.v, min_slots)

\* The slots required per period: the weather-adjusted number when weather
\* adjustment is on, replaced by desired_on_hours * 4 when it is None or 0
num_slots_per_period(device, forecast) ==
    IF device.desired_on_hours = None THEN 0
    ELSE IF device.weather_adjustment
            /\ get_heating_requirement(forecast,
                   device.desired_on_hours.v * quarters_per_hour) # 0
         THEN get_heating_requirement(forecast,
                   device.desired_on_hours.v * quarters_per_hour)
    ELSE device.desired_on_hours.v * quarters_per_hour

\* LoadsPriceManager.get_cheapest_slots. order[i] is the place of the entry of
\* position i in the list sorted by total_price, the sort being stable; the
\* percentile of place k among n is k / n * 100. (SubSeq makes the places an
\* explicit sequence, computed once.)
SortedPlaces(prices) ==
    SubSeq([i \in DOMAIN prices |->
               Cardinality({j \in DOMAIN prices :
                               \/ prices[j].total_price < prices[i].total_price
                               \/ /\ prices[j].total_price = prices[i].total_price
                                  /\ j < i})],
           1, Len(prices))

RankKept(place, n, min_rank, max_rank) ==
    /\ ~(min_rank # None /\ min_rank.v # 0 /\ place * 100 < min_rank.v * n)
    /\ ~(max_rank # None /\ max_rank.v # 0 /\ place * 100 > max_rank.v * n)

\* sorted_indexed[:num_slots] of the entries that the rank filter kept
cheapest_of(order, kept, num_slots) ==
    {i \in kept : Cardinality({j \in kept : order[j] < order[i]}) < num_slots}

cheapest_in_order(order, num_slots, min_rank, max_rank) ==
    cheapest_of(order,
                {i \in DOMAIN order : RankKept(order[i], Len(order), min_rank, max_rank)},
                num_slots)

\* The positions selected in the list that was passed
get_cheapest_slots(prices, num_slots, min_rank, max_rank) ==
    cheapest_in_order(SortedPlaces(prices), num_slots, min_rank, max_rank)

SelectAll(prices, from, to) == SubSeq(prices, from + 1, Min(to, Len(prices)))

SelectNotOff(prices, from, to) ==
    SelectSeq(SubSeq(prices, from + 1, Min(to, Len(prices))),
              LAMBDA s : ~s.always_off)

CountOn(slots, from, to) ==
    Cardinality({p \in (from + 1)..Min(to, Len(slots)) : slots[p]})

\* The slots switched on for the entries selected in a period
enable_selected(slots, period_prices, cheapest) ==
    [p \in DOMAIN slots |->
        \/ slots[p]
        \/ \E rel \in cheapest : period_prices[rel].slot_index = p - 1]

schedule_one_period(slots, device, period_prices, remaining_slots) ==
    IF remaining_slots > 0 /\ Len(period_prices) > 0
    THEN enable_selected(slots, period_prices,
             get_cheapest_slots(period_prices, remaining_slots,
                                device.min_price_rank, device.max_price_rank))
    ELSE slots

\* The loop over the periods of the PERIOD mode: with weather adjustment the
\* slots already on count toward the requirement, without it they are extra
RECURSIVE schedule_periods(_, _, _, _, _, _, _)
schedule_periods(slots, device, device_prices, required, period_idx, num_periods, slots_per_period) ==
    IF period_idx >= num_periods THEN slots
    ELSE schedule_periods(
             schedule_one_period(
                 slots, device,
                 SelectNotOff(device_prices, period_idx * slots_per_period,
                              (period_idx + 1) * slots_per_period),
                 IF device.weather_adjustment
                 THEN Max(0, required - CountOn(slots, period_idx * slots_per_period,
                                                (period_idx + 1) * slots_per_period))
                 ELSE required),
             device, device_prices, required, period_idx + 1, num_periods,
             slots_per_period)

NumPeriods(device) ==
    IF device.period_hours > 0 THEN hours_per_day \div device.period_hours ELSE 1

SlotsPerPeriod(device) ==
    IF NumPeriods(device) > 0 THEN slots_per_day \div NumPeriods(device)
    ELSE slots_per_day

NoSlots == [p \in 1..slots_per_day |-> FALSE]

\* "First, enable all always_on slots"
seed_always_on(slots, device_prices) ==
    [p \in DOMAIN slots |-> slots[p] \/ (p <= Len(device_prices) /\ device_prices[p].always_on)]

\* The PERIOD branch: nothing is scheduled unless the requirement is non-zero
schedule_period_mode(device, device_prices, required) ==
    IF required # 0
    THEN schedule_periods(seed_always_on(NoSlots, device_prices), device, device_prices,
                          required, 0, NumPeriods(device), SlotsPerPeriod(device))
    ELSE NoSlots

\* The THRESHOLD branch: the always-on slots, and every slot that is not off and
\* whose percentile is at most max_price_rank
schedule_threshold_mode(device, device_prices) ==
    IF device.max_price_rank # None /\ device.max_price_rank.v # 0
    THEN enable_selected(
             seed_always_on(NoSlots, device_prices),
             SelectNotOff(device_prices, 0, Len(device_prices)),
             get_cheapest_slots(SelectNotOff(device_prices, 0, Len(device_prices)),
                                Len(SelectNotOff(device_prices, 0, Len(device_prices))),
                                None, device.max_price_rank))
    ELSE seed_always_on(NoSlots, device_prices)

schedule_of(device, device_prices, forecast) ==
    IF device.schedule_mode = "period"
    THEN schedule_period_mode(device, device_prices,
                              num_slots_per_period(device, forecast))
    ELSE schedule_threshold_mode(device, device_prices)

deepcopy_same_object(prices) == [value |-> prices, same_object |-> TRUE]

\* deepcopy(prices): a list of the same content that is another object
deepcopy(prices) == [value |-> prices, same_object |-> FALSE]

\* LoadsScheduler._calc_device_schedule: the schedule, the device's marked list,
\* and the list of the caller as the call leaves it
calc_with_copy(device, prices, copy, forecast) ==
    [slots |-> schedule_of(device,
                   apply_always_on_price(device,
                       _apply_slot_constraints(device, copy.value)),
                   forecast),
     device_prices |-> apply_always_on_price(device,
                           _apply_slot_constraints(device, copy.value)),
     prices |-> IF copy.same_object
                THEN apply_always_on_price(device,
                         _apply_slot_constraints(device, copy.value))
                ELSE prices]

_calc_device_schedule(device, prices, forecast) ==
    calc_with_copy(device, prices, deepcopy(prices), forecast)

\* The loop of calculate_daily_schedule over the devices. price_slots is the list
\* that fetch_prices_for_date returned, the object the cache holds.
RECURSIVE schedule_devices(_, _, _, _, _)
after_device(devs, k, forecast, results, r) ==
    schedule_devices([devs EXCEPT ![k].scheduled_slots = r.slots], k + 1, r.prices,
                     forecast,
                     Append(results, [device |-> k, slots |-> r.slots,
                                      device_prices |-> r.device_prices]))

schedule_devices(devs, k, price_slots, forecast, results) ==
    IF k > Len(devs)
    THEN [devices |-> devs, price_slots |-> price_slots, results |-> results]
    ELSE IF ~devs[k].scheduling_enabled
         THEN schedule_devices(devs, k + 1, price_slots, forecast, results)
    ELSE after_device(devs, k, forecast, results,
                      _calc_device_schedule(devs[k], price_slots, forecast))


-----------------------------------------------------------------------------
(* The Shelly schedules. The Shelly of a device holds a set of schedules,  *)
(* each with an id, the minute and the hours of its timespec               *)
(* "0 minute hours * * *"; a new schedule gets the lowest id that is free. *)
(* reachable tells whether the requests of one run get through.            *)

minutes_per_slot == 15
cleared_ids == 10

MinuteOffsets == <<0, 15, 30, 45>>

HoursFromMidnight(slots, minute) ==
    {((p - 1) \div quarters_per_hour) % hours_per_day :
        p \in {q \in DOMAIN slots :
                  slots[q] /\ ((q - 1) % quarters_per_hour) * minutes_per_slot = minute}}

\* slot_hours[minute]: the wall-clock hours of the slots that are on (slot 0 = 22:00)
HoursAt(slots, minute) ==
    {(((p - 1) \div quarters_per_hour) + window_hour) % hours_per_day :
        p \in {q \in DOMAIN slots :
                  slots[q] /\ ((q - 1) % quarters_per_hour) * minutes_per_slot = minute}}

LowestFreeId(dev) ==
    CHOOSE i \in 1..(Cardinality(dev) + 1) :
        /\ \A s \in dev : s.id # i
        /\ \A j \in 1..(i - 1) : \E s \in dev : s.id = j

\* _clear_shelly_schedules: Schedule.Delete for the ids 0..9, failures ignored
_clear_shelly_schedules(dev, reachable) ==
    IF reachable THEN {s \in dev : s.id \notin 0..(cleared_ids - 1)} ELSE dev

\* _delete_old_schedules: Schedule.Delete for the ids of device.schedule_ids
_delete_old_schedules(dev, schedule_ids, reachable) ==
    IF reachable
    THEN {s \in dev : \A m \in DOMAIN schedule_ids : schedule_ids[m] # s.id}
    ELSE dev

\* _create_shelly_schedule for every minute offset that has hours
RECURSIVE create_per_minute(_, _, _, _)
create_per_minute(dev, slots, k, schedule_ids) ==
    IF k > Len(MinuteOffsets) THEN [dev |-> dev, schedule_ids |-> schedule_ids]
    ELSE IF HoursAt(slots, MinuteOffsets[k]) = {}
         THEN create_per_minute(dev, slots, k + 1, schedule_ids)
    ELSE create_per_minute(
             dev \cup {[id |-> LowestFreeId(dev), minute |-> MinuteOffsets[k],
                        hours |-> HoursAt(slots, MinuteOffsets[k])]},
             slots, k + 1,
             (MinuteOffsets[k] :> LowestFreeId(dev)) @@ schedule_ids)

\* _create_device_schedules: Switch.SetConfig raises when the Shelly is not reached
_create_device_schedules(device, slots, dev, reachable) ==
    IF ~reachable
    THEN [failed |-> TRUE, dev |-> dev, schedule_ids |-> device.schedule_ids]
    ELSE [failed |-> FALSE] @@
         create_per_minute(_delete_old_schedules(dev, device.schedule_ids, reachable),
                           slots, 1, <<>>)

Timespecs(slots) ==
    {[minute |-> MinuteOffsets[k], hours |-> HoursAt(slots, MinuteOffsets[k])] :
        k \in {j \in DOMAIN MinuteOffsets : HoursAt(slots, MinuteOffsets[j]) # {}}}

\* _create_shelly_schedules: the loop over the results of the calculation
RECURSIVE _create_shelly_schedules(_, _, _, _, _, _)
after_shelly(devs, shellies, results, k, reachable, out, r) ==
    IF r.failed
    THEN _create_shelly_schedules(devs, shellies, results, k + 1, reachable,
             [out EXCEPT !.errors = @ + 1])
    ELSE _create_shelly_schedules(
             [devs EXCEPT ![results[k].device].schedule_ids = r.schedule_ids],
             [shellies EXCEPT ![results[k].device] = r.dev],
             results, k + 1, reachable,
             [out EXCEPT !.created = @ + Cardinality(DOMAIN r.schedule_ids),
                         !.devices_updated = @ + 1,
                         !.timespecs = Append(@, Timespecs(results[k].slots))])

_create_shelly_schedules(devs, shellies, results, k, reachable, out) ==
    IF k > Len(results)
    THEN [devices |-> devs, shelly |-> shellies, shelly_results |-> out]
    ELSE after_shelly(devs, shellies, results, k, reachable, out,
             _create_device_schedules(
                 devs[results[k].device], results[k].slots,
                 _clear_shelly_schedules(shellies[results[k].device], reachable),
                 reachable))

NoShellyResults == [created |-> 0, devices_updated |-> 0, errors |-> 0, timespecs |-> <<>>]

-----------------------------------------------------------------------------
(* loads.py: the energy debt tracker and the persistence file. The clock   *)
(* counts minutes from midnight of day 0; a slot timestamp counts          *)
(* quarter-hours from the same midnight.                                   *)

recoveries_maxlen == 20

\* scheduler.price_slots: the list the cache holds for the scheduled date
price_slots_of(cache, a) ==
    IF a.price_date = None THEN <<>> ELSE cache[a.price_date.v]

\* _check_energy_debt: the slot of the schedule the minute now lies in, None
\* without prices or outside the 24 hours of the schedule
current_slot_idx(price_slots, now) ==
    IF price_slots = <<>> THEN None
    ELSE IF price_slots[1].timestamp * minutes_per_slot <= now
            /\ now < (price_slots[1].timestamp + slots_per_day) * minutes_per_slot
         THEN Num((now - price_slots[1].timestamp * minutes_per_slot)
                      \div minutes_per_slot)
         ELSE None

track_debt_unclamped(device, is_scheduled_on, is_actual_on) ==
    IF is_scheduled_on /\ ~is_actual_on THEN device.energy_debt + 1
    ELSE IF ~is_scheduled_on /\ is_actual_on THEN device.energy_debt - 1
    ELSE device.energy_debt

\* _check_energy_debt, step 1: one minute of debt or of payback
track_debt(device, is_scheduled_on, is_actual_on) ==
    IF is_scheduled_on /\ ~is_actual_on
    THEN IF device.energy_debt + 1 > device.max_energy_debt
         THEN device.max_energy_debt
         ELSE device.energy_debt + 1
    ELSE IF ~is_scheduled_on /\ is_actual_on
         THEN IF device.energy_debt > 0 THEN device.energy_debt - 1
              ELSE device.energy_debt
         ELSE device.energy_debt

\* max_recovery_price of None or 0 sets no limit
too_expensive(device, price_slot) ==
    /\ device.max_recovery_price # None
    /\ device.max_recovery_price.v # 0
    /\ price_slot.total_price > device.max_recovery_price.v

\* _attempt_recovery: the slots of the look-ahead that are unscheduled and not
\* too expensive
candidates(device, price_slots, current) ==
    {idx \in current..(current + device.recovery_window_hours * quarters_per_hour - 1) :
        /\ idx < slots_per_day
        /\ ~device.scheduled_slots[idx + 1]
        /\ ~too_expensive(device, price_slots[idx + 1])}

\* The place of a candidate after the stable sort by price
place_by_price(price_slots, cands, idx) ==
    Cardinality({c \in cands :
        \/ price_slots[c + 1].total_price < price_slots[idx + 1].total_price
        \/ /\ price_slots[c + 1].total_price = price_slots[idx + 1].total_price
           /\ c < idx})

slots_needed(device) == (device.energy_debt + minutes_per_slot - 1) \div minutes_per_slot

best_indices(device, price_slots, cands) ==
    {c \in cands : place_by_price(price_slots, cands, c) < slots_needed(device)}

_attempt_recovery_in_any_mode(device, price_slots, current, qw_mode) ==
    current \in best_indices(device, price_slots,
                             candidates(device, price_slots, current))

\* _attempt_recovery: TRUE when the device is commanded on
_attempt_recovery(device, price_slots, current, qw_mode) ==
    /\ qw_mode \notin {"frrup", "frrdown"}
    /\ current \in best_indices(device, price_slots,
                                candidates(device, price_slots, current))

\* deque(maxlen=20).append
append_recovery(recent, entry) ==
    IF Len(recent) + 1 > recoveries_maxlen THEN Tail(Append(recent, entry))
    ELSE Append(recent, entry)

\* The loop body of _check_energy_debt for device k
check_device(st, k, price_slots, current, is_actual_on, qw_mode, now, debt) ==
    LET device == [st.devices[k] EXCEPT !.energy_debt = debt]
        recovers == /\ debt > 0
                    /\ ~st.devices[k].scheduled_slots[current + 1]
                    /\ ~is_actual_on
                    /\ _attempt_recovery(device, price_slots, current, qw_mode)
    IN  [devices |-> [st.devices EXCEPT ![k] = device],
         debt_changed |-> st.debt_changed \/ debt # st.devices[k].energy_debt,
         turned_on |-> IF recovers THEN st.turned_on \cup {k} ELSE st.turned_on,
         recent_recoveries |->
             IF recovers
             THEN append_recovery(st.recent_recoveries,
                                  [timestamp |-> now, device |-> device.name,
                                   price |-> price_slots[current + 1].total_price])
             ELSE st.recent_recoveries]

\* _check_energy_debt: the loop over DEVICES
RECURSIVE check_devices(_, _, _, _, _, _, _)
check_devices(st, k, price_slots, current, actual, qw_mode, now) ==
    IF k > Len(st.devices) THEN st
    ELSE IF ~st.devices[k].scheduling_enabled
         THEN check_devices(st, k + 1, price_slots, current, actual, qw_mode, now)
         ELSE check_devices(
                  check_device(st, k, price_slots, current, actual[k], qw_mode, now,
                               track_debt(st.devices[k],
                                          st.devices[k].scheduled_slots[current + 1],
                                          actual[k])),
                  k + 1, price_slots, current, actual, qw_mode, now)

\* _generate_api_response: what the file holds of the state; the time of a price is
\* written as HH:MM, without its date
_generate_api_response(a, price_slots, devs, now) ==
    [calculated_at |-> IF a.schedule_calculated_at # None
                       THEN a.schedule_calculated_at ELSE Num(now),
     prices |-> [p \in DOMAIN price_slots |->
                    [time |-> price_slots[p].timestamp % slots_per_day,
                     price |-> price_slots[p].total_price]],
     devices |-> [k \in DOMAIN devs |->
                    [name |-> devs[k].name, slots |-> devs[k].scheduled_slots,
                     energy_debt |-> devs[k].energy_debt]],
     recent_recoveries |-> a.recent_recoveries]

\* The devices of the file by name
existing_device(data, name) ==
    {i \in DOMAIN data.devices : data.devices[i].name = name}

\* _update_debt_in_persistence for device k of DEVICES
RECURSIVE patch_debts(_, _, _)
patch_debts(data, devs, k) ==
    IF k > Len(devs) THEN data
    ELSE IF existing_device(data, devs[k].name) # {}
         THEN patch_debts(
                  [data EXCEPT !.devices =
                      [i \in DOMAIN data.devices |->
                          IF data.devices[i].name = devs[k].name
                          THEN [data.devices[i] EXCEPT !.energy_debt = devs[k].energy_debt]
                          ELSE data.devices[i]]],
                  devs, k + 1)
         ELSE patch_debts(
                  [data EXCEPT !.devices =
                      Append(data.devices, [name |-> devs[k].name,
                                            energy_debt |-> devs[k].energy_debt])],
                  devs, k + 1)

\* _update_debt_in_persistence: the file with the debts of the devices written in
_update_debt_in_persistence(file, devs) ==
    patch_debts(IF file = None THEN [devices |-> <<>>] ELSE file, devs, 1)

\* _load_persistence_data: the debt the file holds for a name, 0 without one
loaded_debt(file, name) ==
    IF file = None \/ existing_device(file, name) = {} THEN 0
    ELSE file.devices[CHOOSE i \in existing_device(file, name) :
                         \A j \in existing_device(file, name) : j <= i].energy_debt

_load_persistence_data(file, devs) ==
    [k \in DOMAIN devs |-> [devs[k] EXCEPT !.energy_debt = loaded_debt(file, devs[k].name)]]

-----------------------------------------------------------------------------
(* pbr_load_switching_tool.py. A load is a device with its estimated_power *)
(* in watts; is_on holds what hass.get_state answers for each entity.      *)

\* _get_current_slot: the quarter-hour of the day the minute now lies in
_get_current_slot(now) == (now % (hours_per_day * 60)) \div minutes_per_slot

\* The scheduled slots of the list that lie before position current_slot
slots_done(device, current_slot) ==
    Cardinality({i \in 0..(slots_per_day - 1) :
                    device.scheduled_slots[i + 1] /\ i < current_slot})

\* _handle_frrup: the commitment of a weather-adjusted device is met
commitment_met(device, now) ==
    \/ ~device.weather_adjustment
    \/ device.desired_on_hours = None
    \/ device.desired_on_hours.v = 0
    \/ slots_done(device, _get_current_slot(now))
          >= device.desired_on_hours.v * quarters_per_hour

\* The loads _handle_frrup may turn off, and those _handle_frrdown may turn on
available_off(loads, is_on, now) ==
    {k \in DOMAIN loads :
        loads[k].scheduling_enabled /\ is_on[k] /\ commitment_met(loads[k], now)}

available_on(loads, is_on) ==
    {k \in DOMAIN loads : loads[k].scheduling_enabled /\ ~is_on[k]}

\* available_loads.sort(key=estimated_power, reverse=True): the place of load k in
\* the sorted list, the sort being stable
place_by_power(loads, available, k) ==
    1 + Cardinality({j \in available :
            \/ loads[j].estimated_power > loads[k].estimated_power
            \/ loads[j].estimated_power = loads[k].estimated_power /\ j < k})

sorted_by_power(loads, available) ==
    [p \in 1..Cardinality(available) |->
        CHOOSE k \in available : place_by_power(loads, available, k) = p]

\* The loop over the sorted loads: a load is switched while the power switched so
\* far is below the power needed
RECURSIVE switch_loads(_, _, _, _, _, _)
switch_loads(loads, order, p, power_needed, switched, power) ==
    IF p > Len(order) \/ power >= power_needed
    THEN [loads |-> switched, power |-> power]
    ELSE switch_loads(loads, order, p + 1, power_needed,
                      Append(switched, order[p]),
                      power + loads[order[p]].estimated_power)

_handle_frrup(loads, is_on, now, power_needed) ==
    LET r == switch_loads(loads, sorted_by_power(loads, available_off(loads, is_on, now)),
                          1, power_needed, <<>>, 0)
    IN  [action |-> "load_switching", service |-> "turn_off", loads |-> r.loads,
         power |-> r.power, remaining |-> -(power_needed - r.power)]

_handle_frrdown(loads, is_on, power_needed) ==
    LET r == switch_loads(loads, sorted_by_power(loads, available_on(loads, is_on)),
                          1, power_needed, <<>>, 0)
    IN  [action |-> "load_switching", service |-> "turn_on", loads |-> r.loads,
         power |-> r.power, remaining |-> power_needed - r.power]

\* LoadSwitchingTool.execute
execute(loads, is_on, now, power_needed, mode) ==
    IF mode = "frrup" /\ power_needed < 0
    THEN _handle_frrup(loads, is_on, now, -power_needed)
    ELSE IF mode = "frrdown" /\ power_needed > 0
    THEN _handle_frrdown(loads, is_on, power_needed)
    ELSE [action |-> "none", service |-> "none", loads |-> <<>>, power |-> 0,
          remaining |-> power_needed]

-----------------------------------------------------------------------------
(* The requests _create_shelly_schedules sends to the Shelly of one device, *)
(* in the order they are sent.                                              *)

Request(method, id, minute, hours, on) ==
    [method |-> method, id |-> id, minute |-> minute, hours |-> hours, on |-> on]

\* sorted(set(hours)), the hours of the timespec
RECURSIVE SortedHours(_)
SortedHours(hours) ==
    IF hours = {} THEN <<>>
    ELSE <<CHOOSE h \in hours : \A g \in hours : h <= g>>
             \o SortedHours(hours \ {CHOOSE h \in hours : \A g \in hours : h <= g})

\* _clear_shelly_schedules: Schedule.Delete for the ids 0..9
clear_requests ==
    [i \in 1..cleared_ids |-> Request("Schedule.Delete", i - 1, 0, <<>>, FALSE)]

\* _delete_old_schedules: Schedule.Delete for every id of device.schedule_ids
RECURSIVE delete_requests(_, _)
delete_requests(schedule_ids, k) ==
    IF k > Len(MinuteOffsets) THEN <<>>
    ELSE IF MinuteOffsets[k] \notin DOMAIN schedule_ids
         THEN delete_requests(schedule_ids, k + 1)
    ELSE <<Request("Schedule.Delete", schedule_ids[MinuteOffsets[k]], 0, <<>>, FALSE)>>
             \o delete_requests(schedule_ids, k + 1)

\* Switch.SetConfig: auto_off, or auto_on for a device with inverted logic
config_request(device) ==
    Request("Switch.SetConfig", 0, 0, <<>>, device.inverted_logic)

\* _create_shelly_schedule: timespec "0 <minute> <hours> * * *", on = not inverted
_create_shelly_schedule(hours, minute, inverted) ==
    Request("Schedule.Create", 0, minute, SortedHours(hours), ~inverted)

RECURSIVE create_requests(_, _, _)
create_requests(device, slots, k) ==
    IF k > Len(MinuteOffsets) THEN <<>>
    ELSE IF HoursAt(slots, MinuteOffsets[k]) = {}
         THEN create_requests(device, slots, k + 1)
    ELSE <<_create_shelly_schedule(HoursAt(slots, MinuteOffsets[k]), MinuteOffsets[k],
                                   device.inverted_logic)>>
             \o create_requests(device, slots, k + 1)

\* The requests for one device; nothing is created when Switch.SetConfig raises
device_requests(device, slots, reachable) ==
    SubSeq(clear_requests, 1, cleared_ids)
        \o delete_requests(device.schedule_ids, 1)
        \o <<config_request(device)>>
        \o (IF reachable THEN create_requests(device, slots, 1) ELSE <<>>)

-----------------------------------------------------------------------------
(* The tools on their own: each operation of pbr_tools.py called with      *)
(* arguments and entity states drawn from sets that hold the boundary of   *)
(* every comparison the operation makes.                                    *)

MaxNotRealized == 5

Stopped == [kind |-> "Stopped", w |-> 0]
ForcedStates ==
    { Stopped, [kind |-> "Charging", w |-> 1000], [kind |-> "Charging", w |-> 2000],
      [kind |-> "Discharging", w |-> 2000] }

\* battery_power readings on both sides of the tolerance of each forced power
BatteryPowers == {799, 800, 1699, 1700, -1699, -1700}
ToolTargets == {0, 1000, 2000, 6000}
LimitStates == {0, 1000, 5000}
ExportStates ==
    { [kind |-> "Unknown", v |-> 0], [kind |-> "num", v |-> 0],
      [kind |-> "num", v |-> 1000], [kind |-> "num", v |-> 1100],
      [kind |-> "num", v |-> 8800], [kind |-> "text_unlimited", v |-> 0],
      [kind |-> "text_zero", v |-> 0], [kind |-> "text_digits", v |-> 2000],
      [kind |-> "text_other", v |-> 0] }
ExportTargets == {0, 1000, 2000, 8800, 9000}

\* DataManager.get_system_state() as far as the tools read it
ToolState(forced, bp) ==
    [valid |-> TRUE, forced_power_flow |-> get_current_forced_power(forced),
     battery_power |-> bp]
ToolStates(forced) == {NoState} \cup {ToolState(forced, bp) : bp \in BatteryPowers}

NoEv == [h |-> "none"]

ToolEv(tool, op, target, mt, em, ha, ss, c) ==
    [h |-> "tool", tool |-> tool, op |-> op, target |-> target,
     mode_transition |-> mt, emergency |-> em, ha |-> ha, ss |-> ss,
     pre |-> tools, ret |-> c.ret, why |-> c.why]

\* The harness drives one tool at a time, the others idle for long, and one call a
\* second: the tick that follows a call clears the record of it.
OthersIdle(tool) ==
    /\ ev = NoEv
    /\ \A t \in ToolNames \ {tool} : tools.lct[t] = AgeCap

Apply(c, e) ==
    /\ tools' = [lct |-> c.lct, nrc |-> c.nrc]
    /\ calls' = c.calls
    /\ UNCHANGED <<debug_mode, applied_mode, received, loadsVars>>
    /\ ev' = e

Obs(forced, climit, dlimit, export) ==
    [forced |-> forced, climit |-> climit, dlimit |-> dlimit, export |-> export]

ToolTick ==
    /\ tools' = [tools EXCEPT !.lct = [t \in ToolNames |-> Min(@[t] + 1, AgeCap)]]
    /\ calls' = <<>>
    /\ UNCHANGED <<debug_mode, applied_mode, received, loadsVars>>
    /\ ev' = NoEv
    /\ UNCHANGED pbrVars

ForcedChargingExecuteOp ==
    \E forced \in ForcedStates, climit \in LimitStates, target \in ToolTargets,
       mt \in BOOLEAN :
      \E ss \in ToolStates(forced) :
        LET ha == Obs(forced, climit, 5000, [kind |-> "num", v |-> 8800])
            c == ForcedChargingExecute(Ctx(tools), ha, ss, target, mt)
        IN  /\ OthersIdle(FC)
            /\ Apply(c, ToolEv(FC, "execute", target, mt, FALSE, ha, ss, c))
            /\ UNCHANGED pbrVars

ForcedChargingStopOp ==
    \E forced \in ForcedStates :
        LET ha == Obs(forced, 5000, 5000, [kind |-> "num", v |-> 8800])
            c == ForcedChargingStop(Ctx(tools))
        IN  /\ OthersIdle(FC)
            /\ Apply(c, ToolEv(FC, "stop", 0, FALSE, FALSE, ha, NoState, c))
            /\ UNCHANGED pbrVars

ForcedDischargingExecuteOp ==
    \E forced \in ForcedStates, dlimit \in LimitStates, target \in ToolTargets,
       mt \in BOOLEAN, em \in BOOLEAN :
      \E ss \in ToolStates(forced) :
        LET ha == Obs(forced, 5000, dlimit, [kind |-> "num", v |-> 8800])
            c == ForcedDischargingExecute(Ctx(tools), ha, ss, target, em, mt)
        IN  /\ OthersIdle(FD)
            /\ tools.nrc < MaxNotRealized
            /\ Apply(c, ToolEv(FD, "execute", target, mt, em, ha, ss, c))
            /\ UNCHANGED pbrVars

ForcedDischargingStopOp ==
    \E forced \in ForcedStates :
        LET ha == Obs(forced, 5000, 5000, [kind |-> "num", v |-> 8800])
            c == ForcedDischargingStop(Ctx(tools))
        IN  /\ OthersIdle(FD)
            /\ Apply(c, ToolEv(FD, "stop", 0, FALSE, FALSE, ha, NoState, c))
            /\ UNCHANGED pbrVars

ChargingAdjustmentExecuteOp ==
    \E climit \in LimitStates \cup {1005}, target \in ToolTargets :
        LET ha == Obs(Stopped, climit, 5000, [kind |-> "num", v |-> 8800])
            c == ChargingAdjustmentExecute(Ctx(tools), ha, target)
        IN  /\ OthersIdle(CA)
            /\ Apply(c, ToolEv(CA, "execute", target, FALSE, FALSE, ha, NoState, c))
            /\ UNCHANGED pbrVars

DischargeLimitationExecuteOp ==
    \E dlimit \in LimitStates \cup {1005}, target \in ToolTargets :
        LET ha == Obs(Stopped, 5000, dlimit, [kind |-> "num", v |-> 8800])
            c == DischargeLimitationExecute(Ctx(tools), ha, target)
        IN  /\ OthersIdle(DL)
            /\ Apply(c, ToolEv(DL, "execute", target, FALSE, FALSE, ha, NoState, c))
            /\ UNCHANGED pbrVars

ExportLimitationExecuteOp ==
    \E export \in ExportStates, target \in ExportTargets :
        LET ha == Obs(Stopped, 5000, 5000, export)
            c == ExportLimitationExecute(Ctx(tools), ha, target)
        IN  /\ OthersIdle(EL)
            /\ Apply(c, ToolEv(EL, "execute", target, FALSE, FALSE, ha, NoState, c))
            /\ UNCHANGED pbrVars

\* The tools as constructed: last_command_time = 0.0 (long ago), not_realized_count = 0
ToolsInit == [lct |-> [t \in ToolNames |-> AgeCap], nrc |-> 0]
NoManager == [current_mode |-> "None", current_source |-> "None"]
NoTrigger == [phase_history |-> <<<<>>, <<>>, <<>>>>, listeners |-> 0, last_execution |-> 0]
NoTimers == [run_in |-> -1, run_every |-> -1]
NoneReceived == [i \in 1..3 |-> 0]

\* one more update of phase i has been delivered
delivered(count, i) == [count EXCEPT ![i] = Min(@ + 1, phase_history_maxlen)]

InitTools ==
    /\ tools = ToolsInit
    /\ mode_manager = NoManager
    /\ previous_heating_active = "None"
    /\ sensor_data = [e \in CachedSensors |-> NoEntry(e)]
    /\ fast_trigger = NoTrigger
    /\ timers = NoTimers
    /\ calls = <<>>
    /\ debug_mode = FALSE
    /\ applied_mode = "None"
    /\ received = NoneReceived
    /\ LoadsInit
    /\ ev = NoEv

NextTools ==
    \/ ToolTick
    \/ ForcedChargingExecuteOp
    \/ ForcedChargingStopOp
    \/ ForcedDischargingExecuteOp
    \/ ForcedDischargingStopOp
    \/ ChargingAdjustmentExecuteOp
    \/ DischargeLimitationExecuteOp
    \/ ExportLimitationExecuteOp

SpecTools == InitTools /\ [][NextTools]_vars

-----------------------------------------------------------------------------
(* The balancer as a whole: initialize(), the clock, the two timers of the *)
(* control cycle, the phase listener of the fast trigger and the listener  *)
(* of the actions switch.  Time advances in whole seconds; a handler runs  *)
(* within one second and sees one state of Home Assistant, drawn from the  *)
(* set of the specification at hand.                                       *)

Unlimited == [kind |-> "text_unlimited", v |-> 0]

\* a quiet house: every entity readable, grid powers inside the target range
HA0 ==
    [phases |-> <<Num(30), Num(30), Num(30)>>, total |-> Num(90), soc |-> Num(50),
     battery_power |-> Num(0), target |-> Num(20), mode |-> "normal",
     source |-> "optimizer", heating |-> "off", forced |-> Stopped, climit |-> 5000,
     dlimit |-> 5000, export |-> Unlimited, solar |-> 0, powerlimit |-> 2000,
     range_low |-> 15, range_high |-> 50, boiler_outside_hours |-> FALSE,
     actions |-> "on"]

initial_delay == 1
control_period == 10

\* the state after initialize() with Home Assistant as ha: every entity read once
\* through the data manager, the discharge limit set to 0 when heating is on, the
\* timers set, the fast trigger subscribed unless the SOC is known to be too low
Initialize(ha) ==
    LET c == IF ha.heating = "on"
             THEN DischargeLimitationExecute(Ctx(ToolsInit), ha, 0)
             ELSE Ctx(ToolsInit)
        sd == [e \in CachedSensors |->
                  IF IsNone(e, Reading(ha, e)) THEN NoEntry(e)
                  ELSE [age |-> 0, value |-> Reading(ha, e)]]
        soc == get_sensor_value(sd, ha, "soc", TRUE)
    IN  /\ tools = [lct |-> c.lct, nrc |-> c.nrc]
        /\ mode_manager = NoManager
        /\ previous_heating_active = IF ha.heating = "on" THEN "True" ELSE "False"
        /\ sensor_data = sd
        /\ fast_trigger =
              subscribe([NoTrigger EXCEPT
                            !.last_execution = fast_trigger_minimum_interval], soc)
        /\ timers = [run_in |-> initial_delay, run_every |-> control_period]
        /\ calls = c.calls
        /\ LoadsInit
        /\ ev = [h |-> "initialize", ha |-> ha]

\* pbr_config.py: debug_mode = False
PbrInit(Inputs) ==
    /\ debug_mode = FALSE /\ applied_mode = "None" /\ received = NoneReceived
    /\ \E ha \in Inputs : Initialize(ha)

Pre == [tools |-> tools, mm |-> mode_manager, pha |-> previous_heating_active,
        sd |-> sensor_data, ft |-> fast_trigger]

\* the state a control cycle leaves, count being the updates delivered before it:
\* listeners registered by the cycle have been delivered nothing yet
CommitCycle(out, h, trigger, ha, count) ==
    /\ received' = IF fast_trigger.listeners = 0 /\ out.ft.listeners > 0
                   THEN NoneReceived ELSE count
    /\ tools' = [lct |-> out.c.lct, nrc |-> out.c.nrc]
    /\ mode_manager' = out.mm
    /\ previous_heating_active' = out.pha
    /\ sensor_data' = out.sd
    /\ fast_trigger' = out.ft
    /\ calls' = out.c.calls
    /\ applied_mode' = IF out.changed THEN out.mode ELSE applied_mode
    /\ UNCHANGED <<debug_mode, loadsVars>>
    /\ ev' = [h |-> h, trigger |-> trigger, ha |-> ha, pre |-> Pre,
              stage |-> out.stage, mode |-> out.mode, changed |-> out.changed,
              n_protect |-> out.n_protect, n_init |-> out.n_init,
              qw_mode |-> out.qw_mode, qw_source |-> out.qw_source]

Commit(out, h, trigger, ha) == CommitCycle(out, h, trigger, ha, received)

\* one second passes, no timer being due
Tick ==
    /\ timers.run_in # 0
    /\ timers.run_every # 0
    /\ tools' = [tools EXCEPT !.lct = [t \in ToolNames |-> Min(@[t] + 1, AgeCap)]]
    /\ sensor_data' =
          [e \in CachedSensors |->
              IF sensor_data[e].age = Uncached THEN sensor_data[e]
              ELSE [sensor_data[e] EXCEPT !.age = Min(@ + 1, AgeLimit(e))]]
    /\ fast_trigger' =
          [fast_trigger EXCEPT
              !.last_execution = Min(@ + 1, fast_trigger_minimum_interval)]
    /\ timers' = [run_in |-> IF timers.run_in > 0 THEN timers.run_in - 1 ELSE -1,
                  run_every |-> timers.run_every - 1]
    /\ calls' = <<>>
    /\ UNCHANGED <<debug_mode, applied_mode, received, loadsVars>>
    /\ ev' = NoEv
    /\ UNCHANGED <<mode_manager, previous_heating_active>>

\* run_in(calculate_and_log_desired_state, 1)
FirstCycle(Inputs) ==
    /\ timers.run_in = 0
    /\ \E ha \in Inputs :
          Commit(calculate_and_log_desired_state(Pre, ha), "cycle", "run_in", ha)
    /\ timers' = [timers EXCEPT !.run_in = -1]

\* run_every(calculate_and_log_desired_state, "now+10", 10)
PeriodicCycle(Inputs) ==
    /\ timers.run_every = 0
    /\ \E ha \in Inputs :
          Commit(calculate_and_log_desired_state(Pre, ha), "cycle", "run_every", ha)
    /\ timers' = [timers EXCEPT !.run_every = control_period]

\* the readings a phase listener is called with
PhaseUpdates == {fast_trigger_threshold, fast_trigger_threshold + 1}
ListenedPhases == {1}

\* what a call of the phase listener leaves: the history and the cache alone when it
\* did not trigger, the result of the control cycle when it did
CommitPhaseUpdate(out, i, new, ha) ==
    IF out.stage = "no_trigger"
    THEN /\ sensor_data' = out.sd
         /\ fast_trigger' = out.ft
         /\ calls' = <<>>
         /\ received' = delivered(received, i)
         /\ UNCHANGED <<debug_mode, applied_mode, loadsVars>>
         /\ ev' = [h |-> "phase_update", phase |-> i, new |-> new, ha |-> ha,
                   pre |-> Pre]
         /\ UNCHANGED <<tools, mode_manager, previous_heating_active>>
    ELSE CommitCycle(out, "cycle", "fast_trigger", ha, delivered(received, i))

\* FastPhaseTrigger.on_phase_update, called while the listeners are registered
OnPhaseUpdate(Inputs) ==
    /\ ev = NoEv
    /\ fast_trigger.listeners > 0
    /\ \E i \in ListenedPhases, new \in PhaseUpdates, ha0 \in Inputs :
          CommitPhaseUpdate(
              on_phase_update(Pre, i, new, [ha0 EXCEPT !.phases[i] = Num(new)]),
              i, new, [ha0 EXCEPT !.phases[i] = Num(new)])
    /\ UNCHANGED timers

\* on_config_update for input_boolean.appdaemon_actions: switching the actions off
\* applies the initial state of mode normal (_reset_to_safe_state)
OnActionsToggle(Inputs) ==
    /\ ev = NoEv
    /\ \E old \in {"on", "off"}, ha0 \in Inputs :
          LET ha == [ha0 EXCEPT !.actions = IF old = "on" THEN "off" ELSE "on"]
              c == IF old = "on"
                   THEN apply_mode_initial_state(Ctx(tools), ha,
                            get_system_state(sensor_data, ha), "normal")
                   ELSE Ctx(tools)
          IN  /\ tools' = [lct |-> c.lct, nrc |-> c.nrc]
              /\ calls' = c.calls
              /\ applied_mode' = IF old = "on" THEN "normal" ELSE applied_mode
              /\ UNCHANGED <<debug_mode, received, loadsVars>>
              /\ ev' = [h |-> "config_update", old |-> old,
                        ha |-> Obs(ha.forced, ha.climit, ha.dlimit, ha.export),
                        pre |-> tools]
    /\ UNCHANGED pbrVars

\* the timers alone
TimerNext(Inputs) ==
    \/ Tick
    \/ FirstCycle(Inputs)
    \/ PeriodicCycle(Inputs)

\* the timers and the actions switch
SwitchNext(Inputs) ==
    \/ Tick
    \/ FirstCycle(Inputs)
    \/ PeriodicCycle(Inputs)
    \/ OnActionsToggle(Inputs)

PbrNext(Inputs) ==
    \/ Tick
    \/ FirstCycle(Inputs)
    \/ PeriodicCycle(Inputs)
    \/ OnPhaseUpdate(Inputs)
    \/ OnActionsToggle(Inputs)

-----------------------------------------------------------------------------
(* Heating: every mode with the heating switch on and off, the discharge   *)
(* limit at zero and at maximum, a forced discharge running or not, the    *)
(* grid inside the target range and short of it.                           *)

SourceFor(mode) == IF mode \in mfrr_modes THEN kratt_only_source ELSE "optimizer"

Discharging2000 == [kind |-> "Discharging", w |-> 2000]
InRange == <<Num(30), Num(30), Num(30)>>
Deficit == <<Num(-500), Num(30), Num(30)>>

\* the battery power follows the forced power
Forced(ha, forced) ==
    [ha EXCEPT !.forced = forced,
               !.battery_power = Num(get_current_forced_power(forced))]

HeatInputs ==
    { Forced([HA0 EXCEPT !.mode = m, !.source = SourceFor(m), !.heating = h,
                         !.dlimit = d, !.phases = p], f) :
        m \in ValidModes, h \in {"on", "off"}, d \in {0, max_battery_power},
        f \in {Stopped, Discharging2000}, p \in {InRange, Deficit} }

InitHeat == PbrInit(HeatInputs)
NextHeat == TimerNext(HeatInputs)
SpecHeat == InitHeat /\ [][NextHeat]_vars

-----------------------------------------------------------------------------
(* Mode transitions: modes with each kind of initial state and primary     *)
(* tool, the forced operation stopped, charging and discharging, the       *)
(* export limit off and on, the grid short of the target range.            *)

Charging2000 == [kind |-> "Charging", w |-> 2000]
Limited1000 == [kind |-> "num", v |-> 1000]

ModeInputs ==
    { Forced([HA0 EXCEPT !.mode = m, !.phases = Deficit], f) :
        m \in {"normal", "pvsell", "buy", "sell"},
        f \in {Stopped, Charging2000, Discharging2000} }
    \cup { [HA0 EXCEPT !.mode = m, !.export = Limited1000, !.phases = Deficit] :
              m \in {"normal", "buy"} }

InitModes == PbrInit(ModeInputs)
NextModes == SwitchNext(ModeInputs)
SpecModes == InitModes /\ [][NextModes]_vars

-----------------------------------------------------------------------------
(* Mode and source texts: valid and invalid pairs, a mode text that is no  *)
(* mode, an unavailable mode entity.  The grid stays inside the target     *)
(* range until a phase update takes it out.                                *)

ModeSourcePairs ==
    { <<"normal", "optimizer">>, <<"normal", "kratt">>, <<"frrup", "kratt">>,
      <<"frrup", "optimizer">>, <<"eco", "optimizer">>, <<"normal", "auto">>,
      <<"unavailable", "optimizer">> }

SourceInputs == { [HA0 EXCEPT !.mode = ms[1], !.source = ms[2]] : ms \in ModeSourcePairs }

InitSource == PbrInit(SourceInputs)
NextSource == PbrNext(SourceInputs)
SpecSource == InitSource /\ [][NextSource]_vars

-----------------------------------------------------------------------------
(* Critical readings: phase A a number short of the target range, absent   *)
(* or not a number, the total grid power present or absent, for as long as *)
(* it takes a cached reading to pass its invalid_age.                      *)

StaleInputs ==
    { [HA0 EXCEPT !.phases[1] = a, !.total = t] :
        a \in {Num(-500), None, Bad}, t \in {Num(90), None} }

InitStale == PbrInit(StaleInputs)
NextStale == TimerNext(StaleInputs)
SpecStale == InitStale /\ [][NextStale]_vars

\* the actions switch on and off, the house balanced or one phase in deficit
GateInputs ==
    { [HA0 EXCEPT !.actions = a, !.phases = p] :
        a \in {"on", "off"}, p \in {InRange, Deficit} }

\* With the switch off no cycle refreshes the cache; the clock of this specification
\* stops when a cached reading has gone MaxQuiet seconds without a refresh.
MaxQuiet == 25

QuietTick ==
    /\ \A e \in CachedSensors : sensor_data[e].age < MaxQuiet
    /\ Tick

InitGate == PbrInit(GateInputs)
NextGate ==
    \/ QuietTick
    \/ FirstCycle(GateInputs)
    \/ PeriodicCycle(GateInputs)
    \/ OnPhaseUpdate(GateInputs)
    \/ OnActionsToggle(GateInputs)
SpecGate == InitGate /\ [][NextGate]_vars

\* the lowest phase at each end of the target range and one watt outside it
RangePhases ==
    { <<Num(15), Num(30), Num(30)>>, <<Num(50), Num(60), Num(70)>>,
      <<Num(14), Num(30), Num(30)>>, <<Num(51), Num(60), Num(70)>> }

RangeInputs ==
    { Forced([HA0 EXCEPT !.mode = m, !.source = SourceFor(m), !.phases = p], f) :
        m \in ValidModes, f \in {Stopped, Discharging2000}, p \in RangePhases }

InitRange == PbrInit(RangeInputs)
NextRange == TimerNext(RangeInputs)
SpecRange == InitRange /\ [][NextRange]_vars

\* balancing modes and a fixed-power one, the heating switch on and off
TriggerInputs ==
    { [HA0 EXCEPT !.mode = m, !.heating = h] :
        m \in {"normal", "pvsell", "buy"}, h \in {"on", "off"} }

InitTrigger == PbrInit(TriggerInputs)
NextTrigger ==
    \/ Tick
    \/ FirstCycle(TriggerInputs)
    \/ PeriodicCycle(TriggerInputs)
    \/ OnPhaseUpdate(TriggerInputs)
SpecTrigger == InitTrigger /\ [][NextTrigger]_vars

\* the SOC around the minimum for discharging, and unreadable; a mode the cycle
\* rejects before it reaches the subscription update
SocInputs ==
    { [HA0 EXCEPT !.soc = x, !.mode = m] :
        x \in {Num(5), Num(6), Num(7), None}, m \in {"normal", "eco"} }

InitSoc == PbrInit(SocInputs)
NextSoc ==
    \/ QuietTick
    \/ FirstCycle(SocInputs)
    \/ PeriodicCycle(SocInputs)
    \/ OnPhaseUpdate(SocInputs)
SpecSoc == InitSoc /\ [][NextSoc]_vars

-----------------------------------------------------------------------------
(* The price manager on its own: fetch_prices_for_date called for a few    *)
(* target dates, the API answering each fetched date in one of a few ways. *)

Dates == {1, 2}
ApiDayStarts == {0, 4}

Complete    == [errors |-> 0, n |-> 96, malformed |-> FALSE]
AfterRetry  == [errors |-> 1, n |-> 96, malformed |-> FALSE]
Unreachable == [errors |-> 3, n |-> 0, malformed |-> FALSE]
Partial     == [errors |-> 0, n |-> 48, malformed |-> FALSE]
\* 28 entries are read, the next one carries no price for the area
BrokenEntry == [errors |-> 0, n |-> 28, malformed |-> TRUE]

Responses == {Complete, AfterRetry, Unreachable, Partial, BrokenEntry}

PriceApis ==
    [curve : PriceCurves, day_start : ApiDayStarts,
     previous : Responses, target : Responses]

PbrIdle ==
    /\ tools = ToolsInit
    /\ mode_manager = NoManager
    /\ previous_heating_active = "None"
    /\ sensor_data = [e \in CachedSensors |-> NoEntry(e)]
    /\ fast_trigger = NoTrigger
    /\ timers = NoTimers
    /\ debug_mode = FALSE
    /\ applied_mode = "None"
    /\ received = NoneReceived
    /\ calls = <<>>
    /\ ev = NoEv

pbrAll == <<tools, mode_manager, previous_heating_active, sensor_data, fast_trigger,
            timers, calls, debug_mode, applied_mode, received, ev>>

CommitFetch(d, api, r) ==
    /\ price_cache' = r.cache
    /\ lev' = [op |-> "fetch", date |-> d, source |-> r.source, prices |-> r.prices]
    /\ UNCHANGED <<devices, shelly, app, disk, clock>>
    /\ UNCHANGED pbrAll

FetchPricesForDate ==
    \E d \in Dates, api \in PriceApis :
        CommitFetch(d, api, fetch_prices_for_date(price_cache, d, api))

InitPrices == PbrIdle /\ LoadsInit

NextPrices == FetchPricesForDate

SpecPrices == InitPrices /\ [][NextPrices]_vars

-----------------------------------------------------------------------------
(* The scheduler: calculate_daily_schedule for the devices of one of a few *)
(* configurations.                                                         *)

Device(name, mode, desired, period, weather, on_hours, off_hours, on_price, max_rank) ==
    [name |-> name, scheduling_enabled |-> TRUE, schedule_mode |-> mode,
     desired_on_hours |-> desired, period_hours |-> period,
     min_price_rank |-> None, max_price_rank |-> max_rank,
     weather_adjustment |-> weather,
     always_on_hours |-> on_hours, always_off_hours |-> off_hours,
     always_on_price |-> on_price, inverted_logic |-> FALSE,
     energy_debt |-> 0, max_energy_debt |-> 180, recovery_window_hours |-> 4,
     max_recovery_price |-> Num(500),
     scheduled_slots |-> NoSlots, schedule_ids |-> <<>>]

\* DEVICES of loads_config.py: 7.0 and 6.5 cents in tenths of a cent
Boiler ==
    Device("Boiler", "period", Num(3), 24, FALSE, <<>>, <<<<22, 24>>>>, Num(70), None)
HeatingBig ==
    Device("Heating Big", "period", Num(0), 24, TRUE, <<>>, <<>>, Num(65), None)

\* Further devices: overlapping on and off hours, a threshold device, a device
\* that asks for no hours, one without desired_on_hours and switched off
Pump ==
    Device("Pump", "period", Num(1), 6, FALSE, <<<<6, 9>>, <<22>>>>, <<<<8, 10>>>>,
           None, None)
Dehumidifier ==
    Device("Dehumidifier", "threshold", None, 24, FALSE, <<<<12>>>>, <<<<22, 24>>>>,
           Num(70), Num(30))
Towel ==
    Device("Towel", "period", Num(0), 12, FALSE, <<<<6, 8>>>>, <<>>, None, None)
Spare ==
    [Device("Spare", "period", None, 24, FALSE, <<<<0, 24>>>>, <<>>, None, None)
        EXCEPT !.scheduling_enabled = FALSE]

\* A weather-adjusted heating with always-on hours in both halves of the night
Floor ==
    Device("Floor", "period", Num(3), 12, TRUE, <<<<22>>, <<3>>>>, <<<<5>>>>, None, None)

DeviceLists ==
    {<<Boiler, HeatingBig>>, <<Pump, Dehumidifier>>, <<Towel, Spare>>, <<Floor>>}

Forecasts == {None, Num(8)}

ScheduleApis ==
    [curve : {"night"}, day_start : {4},
     previous : {Complete}, target : {Complete, Unreachable}]

\* The prices of a list: the times and what the energy costs at them
PriceData(prices) ==
    [p \in DOMAIN prices |-> <<prices[p].timestamp, prices[p].total_price>>]

\* The run is given what the run before it was given
SameRun(d, forecast, reachable, prices) ==
    /\ lev.op = "schedule"
    /\ lev.date = d
    /\ lev.forecast = forecast
    /\ lev.reachable = reachable
    /\ PriceData(lev.prices) = PriceData(prices)

\* The state calculate_daily_schedule leaves: the shared list is the object the
\* cache holds for the date, and scheduler.price_slots refers to it
CommitShelly(d, forecast, reachable, fetched, out, sh) ==
    /\ price_cache' = (d :> out.price_slots) @@ fetched.cache
    /\ devices' = sh.devices
    /\ shelly' = sh.shelly
    /\ app' = [app EXCEPT !.price_date = Num(d)]
    /\ lev' = [op |-> "schedule", date |-> d, source |-> fetched.source,
               forecast |-> forecast, reachable |-> reachable,
               prices |-> fetched.prices, results |-> out.results,
               shelly |-> sh.shelly_results,
               repeat |-> SameRun(d, forecast, reachable, fetched.prices),
               same_slots |-> \A k \in DOMAIN devices :
                                 sh.devices[k].scheduled_slots
                                     = devices[k].scheduled_slots,
               same_shelly |-> lev.op = "schedule"
                               /\ sh.shelly_results = lev.shelly]
    /\ UNCHANGED <<disk, clock>>
    /\ UNCHANGED pbrAll

CommitDevices(d, forecast, reachable, fetched, out) ==
    CommitShelly(d, forecast, reachable, fetched, out,
                 _create_shelly_schedules(out.devices, shelly, out.results, 1,
                                          reachable, NoShellyResults))

CommitSchedule(d, forecast, reachable, fetched) ==
    CommitDevices(d, forecast, reachable, fetched,
                  schedule_devices(devices, 1, fetched.prices, forecast, <<>>))

\* calculate_daily_schedule, for today (manual or at startup) or for tomorrow
CalculateDailySchedule ==
    \E d \in Dates, api \in ScheduleApis, forecast \in Forecasts,
       reachable \in BOOLEAN :
        CommitSchedule(d, forecast, reachable,
                       fetch_prices_for_date(price_cache, d, api))

InitSchedule ==
    /\ PbrIdle
    /\ price_cache = <<>>
    /\ devices \in DeviceLists
    /\ shelly = [k \in DOMAIN devices |-> {}]
    /\ app = NoApp
    /\ disk = None
    /\ clock = 0
    /\ lev = NoLev

NextSchedule == CalculateDailySchedule

SpecSchedule == InitSchedule /\ [][NextSchedule]_vars

-----------------------------------------------------------------------------
(* The load scheduling application: start, the daily calculation, the      *)
(* minute tick of the debt tracker and the reset of the debts.             *)

minutes_per_day == 1440
schedule_minute == 1310

Heater ==
    Device("Heater", "period", Num(1), 24, FALSE, <<>>, <<>>, None, None)

AppDevices == <<Heater, Spare>>

\* The prices the application is given: the API answers, or nobody does
AppApis ==
    [curve : {"saw"}, day_start : {4}, previous : {Complete},
     target : {Complete, Unreachable}]

\* The debt of the heater in the file of an earlier run
PreviousDebts == {0, 30, 180}

\* The file an earlier run left: its schedule on fallback prices
PreviousFile(debt) ==
    _generate_api_response(
        [NoApp EXCEPT !.schedule_calculated_at = Num(0)],
        _get_fallback_prices(0),
        [schedule_devices(AppDevices, 1, _get_fallback_prices(0), None, <<>>).devices
            EXCEPT ![1].energy_debt = debt],
        0)

PreviousFiles == {None} \cup {PreviousFile(debt) : debt \in PreviousDebts}

\* The minutes the application is started at, and the ticks it is followed for
StartMinutes == {1543, 1558, 2749}
TickMinutes == {1544, 1545, 1559, 1560, 1561, 2750, 2751}

QwModes == {"normal", "frrup", "frrdown"}

\* initialize(): the devices as configured, no prices, no recoveries, and the
\* debts of the file
Started(file) ==
    /\ price_cache = <<>>
    /\ devices = _load_persistence_data(file, AppDevices)
    /\ app = NoApp

Restart ==
    /\ price_cache' = <<>>
    /\ devices' = _load_persistence_data(disk, AppDevices)
    /\ app' = NoApp
    /\ lev' = [op |-> "restart", devices |-> devices,
               recent_recoveries |-> app.recent_recoveries,
               saved |-> disk = _generate_api_response(
                                    app, price_slots_of(price_cache, app),
                                    devices, clock)]
    /\ UNCHANGED <<shelly, disk, clock>>
    /\ UNCHANGED pbrAll

\* _daily_callback after a calculation that succeeded
SaveSchedule(d, fetched, out, sh) ==
    /\ price_cache' = (d :> out.price_slots) @@ fetched.cache
    /\ devices' = sh.devices
    /\ shelly' = sh.shelly
    /\ app' = [app EXCEPT !.price_date = Num(d),
                          !.schedule_calculated_at = Num(clock)]
    /\ disk' = _generate_api_response(
                   [app EXCEPT !.price_date = Num(d),
                               !.schedule_calculated_at = Num(clock)],
                   out.price_slots, sh.devices, clock)
    /\ lev' = [op |-> "daily", date |-> d, source |-> fetched.source]
    /\ UNCHANGED clock
    /\ UNCHANGED pbrAll

ScheduleAndSave(d, fetched, out) ==
    SaveSchedule(d, fetched, out,
                 _create_shelly_schedules(out.devices, shelly, out.results, 1,
                                          TRUE, NoShellyResults))

\* _daily_callback: for today at startup or on request, for tomorrow at 21:50
DailyCallback ==
    \E is_manual \in BOOLEAN, api \in AppApis :
        /\ is_manual \/ clock % minutes_per_day = schedule_minute
        /\ ScheduleAndSave(
               clock \div minutes_per_day + (IF is_manual THEN 0 ELSE 1),
               fetch_prices_for_date(
                   price_cache,
                   clock \div minutes_per_day + (IF is_manual THEN 0 ELSE 1), api),
               schedule_devices(
                   devices, 1,
                   fetch_prices_for_date(
                       price_cache,
                       clock \div minutes_per_day + (IF is_manual THEN 0 ELSE 1),
                       api).prices,
                   None, <<>>))

\* The state a tick leaves that found the slot of the minute
Tracked(now, price_slots, current, actual, qw_mode, st) ==
    /\ devices' = st.devices
    /\ app' = [app EXCEPT !.recent_recoveries = st.recent_recoveries]
    /\ disk' = IF st.debt_changed
               THEN _generate_api_response(
                        [app EXCEPT !.recent_recoveries = st.recent_recoveries],
                        price_slots, st.devices, now)
               ELSE disk
    /\ lev' = [op |-> "tick", slot |-> Num(current), actual |-> actual,
               qw_mode |-> qw_mode, devices |-> devices, file |-> disk,
               wrote |-> st.debt_changed, turned_on |-> st.turned_on]

\* _check_energy_debt of the minute now
CheckAt(now, price_slots, current, actual, qw_mode) ==
    /\ clock' = now
    /\ IF current = None
       THEN /\ lev' = [op |-> "tick", slot |-> None]
            /\ UNCHANGED <<devices, app, disk>>
       ELSE Tracked(now, price_slots, current.v, actual, qw_mode,
                    check_devices([devices |-> devices, debt_changed |-> FALSE,
                                   turned_on |-> {},
                                   recent_recoveries |-> app.recent_recoveries],
                                  1, price_slots, current.v, actual, qw_mode, now))
    /\ UNCHANGED <<price_cache, shelly>>
    /\ UNCHANGED pbrAll

\* _check_energy_debt, a minute after the last one: the switches are found as
\* they are, on or off, and sensor.qw_mode as it is
CheckEnergyDebt ==
    \E is_actual_on \in BOOLEAN, qw_mode \in QwModes :
        /\ clock + 1 \in TickMinutes
        /\ CheckAt(clock + 1, price_slots_of(price_cache, app),
                   current_slot_idx(price_slots_of(price_cache, app), clock + 1),
                   [k \in DOMAIN devices |-> is_actual_on], qw_mode)

\* The devices _service_reset_debt resets
resets(devs, device_name) ==
    {k \in DOMAIN devs :
        /\ device_name = None \/ devs[k].name = device_name.v
        /\ devs[k].energy_debt > 0}

\* _service_reset_debt, for one device or for all
ServiceResetDebt ==
    \E device_name \in {None, [v |-> "Heater"]} :
        /\ devices' = [k \in DOMAIN devices |->
                          IF k \in resets(devices, device_name)
                          THEN [devices[k] EXCEPT !.energy_debt = 0]
                          ELSE devices[k]]
        /\ disk' = IF resets(devices, device_name) # {}
                   THEN _update_debt_in_persistence(
                            disk,
                            [k \in DOMAIN devices |->
                                IF k \in resets(devices, device_name)
                                THEN [devices[k] EXCEPT !.energy_debt = 0]
                                ELSE devices[k]])
                   ELSE disk
        /\ lev' = [op |-> "reset", devices |-> devices, file |-> disk,
                   wrote |-> resets(devices, device_name) # {}]
        /\ UNCHANGED <<price_cache, shelly, app, clock>>
        /\ UNCHANGED pbrAll

InitApp ==
    /\ PbrIdle
    /\ clock \in StartMinutes
    /\ disk \in PreviousFiles
    /\ Started(disk)
    /\ shelly = [k \in DOMAIN AppDevices |-> {}]
    /\ lev = NoLev

NextApp == Restart \/ DailyCallback \/ CheckEnergyDebt \/ ServiceResetDebt

SpecApp == InitApp /\ [][NextApp]_vars

-----------------------------------------------------------------------------
(* The load switching tool on its own: execute called with the loads of a  *)
(* schedule, the switches on or off, and a power to free or to consume.    *)

WithPower(device, watts) == [estimated_power |-> watts] @@ device

\* DEVICES of loads_config.py, a heating that promises two hours, and a load that
\* is switched off in the configuration
Radiator ==
    Device("Radiator", "period", Num(2), 24, TRUE, <<>>, <<>>, None, None)

SwitchedLoads ==
    <<WithPower(Boiler, 2000), WithPower(HeatingBig, 6000), WithPower(Radiator, 1500),
      WithPower(Spare, 3000)>>

\* Early in the night, and in the afternoon
SwitchMinutes == {1500, 2400}

PowersNeeded == {-7000, -2500, -500, 0, 500, 1500, 9500}

LoadSwitchingExecute ==
    \E mode \in mfrr_modes, power_needed \in PowersNeeded,
       is_on \in [DOMAIN devices -> BOOLEAN] :
        /\ lev' = [op |-> "switch", mode |-> mode, power_needed |-> power_needed,
                   is_on |-> is_on,
                   result |-> execute(devices, is_on, clock, power_needed, mode)]
        /\ UNCHANGED <<price_cache, devices, shelly, app, disk, clock>>
        /\ UNCHANGED pbrAll

InitSwitching ==
    /\ PbrIdle
    /\ price_cache = <<>>
    /\ devices = schedule_devices(SwitchedLoads, 1, _get_fallback_prices(1), None,
                                  <<>>).devices
    /\ shelly = [k \in DOMAIN devices |-> {}]
    /\ app = NoApp
    /\ disk = None
    /\ clock \in SwitchMinutes
    /\ lev = NoLev

NextSwitching == LoadSwitchingExecute

SpecSwitching == InitSwitching /\ [][NextSwitching]_vars

-----------------------------------------------------------------------------
(* The balancer in debug mode: every mode with the heating switch on and   *)
(* off, the discharge limit at zero and at maximum, the grid inside the    *)
(* target range and short of it.                                           *)

InitDebug ==
    /\ debug_mode = TRUE /\ applied_mode = "None" /\ received = NoneReceived
    /\ \E ha \in HeatInputs : Initialize(ha)
NextDebug == TimerNext(HeatInputs)
SpecDebug == InitDebug /\ [][NextDebug]_vars

-----------------------------------------------------------------------------
(* The tool walk: limitexport and the two mFRR modes, the grid inside the  *)
(* target range, short of it and above it, the charging limit at maximum   *)
(* and below it.                                                           *)

Surplus == <<Num(300), Num(300), Num(300)>>

WalkInputs ==
    { [HA0 EXCEPT !.mode = m, !.source = SourceFor(m), !.phases = p, !.climit = c] :
        m \in {"limitexport", "frrup", "frrdown"}, p \in {InRange, Deficit, Surplus},
        c \in {1000, max_battery_power} }

InitWalk == PbrInit(WalkInputs)
NextWalk == TimerNext(WalkInputs)
SpecWalk == InitWalk /\ [][NextWalk]_vars

-----------------------------------------------------------------------------
(* The Shelly schedules of one device for slot patterns of every shape:    *)
(* runs of slots and slots at regular distances, at the start of the        *)
(* window, across midnight and at its end.                                  *)

PatternStarts == {0, 7, 8, 9, 50, 90}
PatternCounts == {0, 1, 2, 5}
PatternSteps == {1, 4, 5}

Pattern(first, count, step) ==
    SubSeq([p \in 1..slots_per_day |->
               /\ p - 1 >= first
               /\ p - 1 < first + count * step
               /\ (p - 1 - first) % step = 0], 1, slots_per_day)

Plug(inverted) ==
    [Device("Plug", "period", Num(1), 24, FALSE, <<>>, <<>>, None, None)
        EXCEPT !.inverted_logic = inverted]

CreateShellySchedules ==
    \E first \in PatternStarts, count \in PatternCounts, step \in PatternSteps,
       reachable \in BOOLEAN :
        /\ devices' = _create_shelly_schedules(devices, shelly,
                          <<[device |-> 1, slots |-> Pattern(first, count, step)]>>,
                          1, reachable, NoShellyResults).devices
        /\ shelly' = _create_shelly_schedules(devices, shelly,
                          <<[device |-> 1, slots |-> Pattern(first, count, step)]>>,
                          1, reachable, NoShellyResults).shelly
        /\ lev' = [op |-> "cron", slots |-> Pattern(first, count, step),
                   reachable |-> reachable,
                   requests |-> device_requests(devices[1],
                                    Pattern(first, count, step), reachable)]
        /\ UNCHANGED <<price_cache, app, disk, clock>>
        /\ UNCHANGED pbrAll

InitCron ==
    /\ PbrIdle
    /\ price_cache = <<>>
    /\ \E inverted \in BOOLEAN : devices = <<Plug(inverted)>>
    /\ shelly = [k \in DOMAIN devices |-> {}]
    /\ app = NoApp
    /\ disk = None
    /\ clock = 0
    /\ lev = NoLev

NextCron == CreateShellySchedules

SpecCron == InitCron /\ [][NextCron]_vars

-----------------------------------------------------------------------------
(* The heating switch going off: modes that restore the discharge limit to *)
(* maximum and to zero, the limit at zero and at maximum, cycles started by *)
(* the timers and by the fast trigger.                                      *)

RestoreInputs ==
    { [HA0 EXCEPT !.mode = m, !.heating = h, !.dlimit = d] :
        m \in {"normal", "savebattery", "pvsell"}, h \in {"on", "off"},
        d \in {0, max_battery_power} }

InitRestore == PbrInit(RestoreInputs)
NextRestore ==
    \/ Tick
    \/ FirstCycle(RestoreInputs)
    \/ PeriodicCycle(RestoreInputs)
    \/ OnPhaseUpdate(RestoreInputs)
SpecRestore == InitRestore /\ [][NextRestore]_vars

-----------------------------------------------------------------------------
(* The actions switch under modes with different initial states, the mode  *)
(* staying what it is or changing while the switch is off.                 *)

ReenableInputs ==
    { [HA0 EXCEPT !.mode = m, !.actions = a] :
        m \in {"normal", "savebattery", "limitexport"}, a \in {"on", "off"} }

InitReenable == PbrInit(ReenableInputs)
NextReenable ==
    \/ QuietTick
    \/ FirstCycle(ReenableInputs)
    \/ PeriodicCycle(ReenableInputs)
    \/ OnActionsToggle(ReenableInputs)
SpecReenable == InitReenable /\ [][NextReenable]_vars

-----------------------------------------------------------------------------
(* The SOC at and around the minimum for discharging: modes that balance   *)
(* and the mode that sells, a deficit, a forced discharge running that the *)
(* battery does not follow.                                                *)

Unfollowed(ha, forced) == [ha EXCEPT !.forced = forced]

LowSocInputs ==
    { Unfollowed([HA0 EXCEPT !.soc = x, !.mode = m, !.phases = p], f) :
        x \in {Num(5), Num(6), Num(7)}, m \in {"normal", "nobattery", "sell"},
        p \in {InRange, Deficit}, f \in {Stopped, Discharging2000} }

InitLowSoc == PbrInit(LowSocInputs)
NextLowSoc == TimerNext(LowSocInputs)
SpecLowSoc == InitLowSoc /\ [][NextLowSoc]_vars

-----------------------------------------------------------------------------
(* Consecutive forced-discharge attempts of the balancing walk: a forced   *)
(* discharge running that the battery follows or does not follow, targets  *)
(* equal to the running power and different from it, the attempts one      *)
(* second and more apart.  Each attempt is recorded with the outcome of    *)
(* the attempt before it.                                                   *)

AttemptTargets == {1000, 2000}
AttemptPowers == {0, -2000}

NoAttempt == [why |-> "none", unrealized |-> FALSE]

Attempted == ev.h = "tool" /\ ev.tool = FD /\ ev.op = "attempt"

ForcedDischargingAttempt ==
    \E target \in AttemptTargets, bp \in AttemptPowers :
        LET ha == Obs(Discharging2000, 5000, 5000, [kind |-> "num", v |-> 8800])
            ss == ToolState(Discharging2000, bp)
            c == ForcedDischargingExecute(Ctx(tools), ha, ss, target, FALSE, FALSE)
        IN  /\ tools.nrc < MaxNotRealized
            /\ tools' = [lct |-> c.lct, nrc |-> c.nrc]
            /\ calls' = c.calls
            /\ ev' = [h |-> "tool", tool |-> FD, op |-> "attempt", target |-> target,
                      ss |-> ss, pre |-> tools, why |-> c.why,
                      prev |-> IF Attempted
                               THEN [why |-> ev.why,
                                     unrealized |-> ~is_forced_power_realized(ev.ss)]
                               ELSE NoAttempt]
            /\ UNCHANGED <<debug_mode, applied_mode, received, loadsVars>>
            /\ UNCHANGED pbrVars

\* a second passes between two attempts
AttemptTick ==
    /\ tools' = [tools EXCEPT !.lct = [t \in ToolNames |-> Min(@[t] + 1, AgeCap)]]
    /\ UNCHANGED <<calls, ev, debug_mode, applied_mode, received, loadsVars>>
    /\ UNCHANGED pbrVars

InitOverride == InitTools
NextOverride == ForcedDischargingAttempt \/ AttemptTick
SpecOverride == InitOverride /\ [][NextOverride]_vars

-----------------------------------------------------------------------------
(* get_sensor_value with use_fallback on the entities that have a fallback: *)
(* each of them never cached, cached fresh or stale, with a valid or an     *)
(* invalid value, and Home Assistant returning a valid state, an invalid    *)
(* one or none.                                                             *)

FallbackSensors == {"mode", "source", "heating", "target"}

ValidReading(e) ==
    CASE e = "mode" -> "pvsell"
      [] e = "source" -> "manual"
      [] e = "heating" -> "on"
      [] e = "target" -> Num(25)

InvalidReading(e) == IF e \in TextSensors THEN "unknown" ELSE Bad

SensorReadings(e) == {ValidReading(e), InvalidReading(e), NoneOf(e)}

CacheKinds == {"uncached", "fresh", "fresh_invalid", "stale", "stale_invalid"}

CacheEntry(e, kind) ==
    CASE kind = "uncached" -> NoEntry(e)
      [] kind = "fresh" -> [age |-> 0, value |-> ValidReading(e)]
      [] kind = "fresh_invalid" -> [age |-> 0, value |-> InvalidReading(e)]
      [] kind = "stale" -> [age |-> max_age(e) + 1, value |-> ValidReading(e)]
      [] kind = "stale_invalid" -> [age |-> max_age(e) + 1, value |-> InvalidReading(e)]

WithReading(ha, e, x) ==
    CASE e = "mode" -> [ha EXCEPT !.mode = x]
      [] e = "source" -> [ha EXCEPT !.source = x]
      [] e = "heating" -> [ha EXCEPT !.heating = x]
      [] e = "target" -> [ha EXCEPT !.target = x]

GetSensorValue ==
    \E e \in FallbackSensors :
      \E x \in SensorReadings(e) :
        /\ sensor_data' = touch_sensors(sensor_data, WithReading(HA0, e, x), {e})
        /\ ev' = [h |-> "get_sensor_value", entity |-> e, state |-> x,
                  pre |-> sensor_data[e],
                  found |-> fetch_value(sensor_data, WithReading(HA0, e, x), e).value,
                  value |-> get_sensor_value(sensor_data, WithReading(HA0, e, x), e,
                                             TRUE)]
        /\ calls' = <<>>
        /\ UNCHANGED <<tools, mode_manager, previous_heating_active, fast_trigger,
                       timers, debug_mode, applied_mode, received, loadsVars>>

InitFallback ==
    /\ tools = ToolsInit
    /\ mode_manager = NoManager
    /\ previous_heating_active = "None"
    /\ \E kinds \in [FallbackSensors -> CacheKinds] :
          sensor_data = [e \in CachedSensors |->
                            IF e \in FallbackSensors THEN CacheEntry(e, kinds[e])
                            ELSE [age |-> 0, value |-> Reading(HA0, e)]]
    /\ fast_trigger = NoTrigger
    /\ timers = NoTimers
    /\ calls = <<>>
    /\ debug_mode = FALSE
    /\ applied_mode = "None"
    /\ received = NoneReceived
    /\ LoadsInit
    /\ ev = NoEv

NextFallback == GetSensorValue

SpecFallback == InitFallback /\ [][NextFallback]_vars

-----------------------------------------------------------------------------
(* A persistent deficit in mode normal with an inverter that does what it  *)
(* is told: the cycle of every ten seconds sees Home Assistant as the      *)
(* commands of the cycle before have left it.  The charging limit starts   *)
(* at zero, low and at maximum, the battery idle, charging or discharging  *)
(* on its own, the deficit moderate and large.                             *)

ModerateDeficit == <<Num(-100), Num(30), Num(30)>>

\* the charging limit with a battery power that does not exceed it
LimitAndPower == {cb \in {0, 25, 400, 5000} \X {-300, 0, 25, 400} : cb[2] <= cb[1]}

ServeInputs ==
    { [HA0 EXCEPT !.phases = p, !.climit = cb[1], !.battery_power = Num(cb[2]),
                  !.soc = s, !.dlimit = d] :
        p \in {Deficit, ModerateDeficit}, cb \in LimitAndPower,
        s \in {Num(7), Num(50)}, d \in {0, max_battery_power} }

\* Home Assistant after the inverter has taken the commands q: the limits are what
\* they were set to, the battery charges with no more than the charging limit
RECURSIVE Realized(_, _)
Realized(ha, q) ==
    IF q = <<>> THEN ha
    ELSE Realized(
             CASE Head(q).svc = "set_charge_limit" ->
                      [ha EXCEPT !.climit = Head(q).v,
                                 !.battery_power =
                                     IF @.v > Head(q).v THEN Num(Head(q).v) ELSE @]
               [] Head(q).svc = "set_discharge_limit" -> [ha EXCEPT !.dlimit = Head(q).v]
               [] OTHER -> ha,
             Tail(q))

DischargeIssued == \E k \in DOMAIN calls : calls[k].svc = "forcible_discharge_soc"

\* the balancer's state ten seconds on
AfterPeriod(st) ==
    [st EXCEPT
        !.tools.lct = [t \in ToolNames |-> Min(@[t] + control_period, AgeCap)],
        !.sd = [e \in CachedSensors |->
                   IF @[e].age = Uncached THEN @[e]
                   ELSE [@[e] EXCEPT !.age = Min(@ + control_period, AgeLimit(e))]],
        !.ft.last_execution = Min(@ + control_period, fast_trigger_minimum_interval)]

\* the ten seconds between two firings of the run_every timer pass
Period ==
    /\ ~DischargeIssued
    /\ timers.run_every # 0
    /\ tools' = AfterPeriod(Pre).tools
    /\ sensor_data' = AfterPeriod(Pre).sd
    /\ fast_trigger' = AfterPeriod(Pre).ft
    /\ timers' = [run_in |-> -1, run_every |-> 0]
    /\ UNCHANGED <<mode_manager, previous_heating_active, calls, ev>>
    /\ UNCHANGED <<debug_mode, applied_mode, received, loadsVars>>

\* the timer is due and no forced discharge has been commanded yet
ServeDue == timers.run_every = 0 /\ ~DischargeIssued

\* run_every(calculate_and_log_desired_state, "now+10", 10): the cycle reads Home
\* Assistant as the commands issued so far have left it
ServeCycle ==
    /\ ServeDue
    /\ \E ha \in {Realized(ev.ha, calls)} :
          \E out \in {calculate_and_log_desired_state(Pre, ha)} :
              Commit(out, "cycle", "run_every", ha)
    /\ timers' = [timers EXCEPT !.run_every = control_period]

InitServe == PbrInit(ServeInputs)

NextServe ==
    \/ Period
    \/ ServeCycle

\* AppDaemon's scheduler lets time pass and fires a due timer: weak fairness of both
\* actions.  The cycle's is written out, WF_vars(A) being
\* []<>~(ENABLED <<A>>_vars) \/ []<><<A>>_vars: the cycle always changes the timers,
\* so it is enabled exactly when ServeDue holds.
ServeFairness ==
    /\ WF_vars(Period)
    /\ ([]<>(~ServeDue) \/ []<><<ServeCycle>>_vars)

SpecServe == InitServe /\ [][NextServe]_vars /\ ServeFairness

-----------------------------------------------------------------------------
(* Properties of the tools.                                                *)

IsToolCall(tool, op) == ev.h = "tool" /\ ev.tool = tool /\ ev.op = op

\* the claim's own wording of "not realized": a forced power is commanded and the
\* battery power is further from it than max(200 W, 15 % of it)
Unrealized(ss) ==
    /\ ss.valid
    /\ ss.forced_power_flow # 0
    /\ 100 * Abs(ss.battery_power - ss.forced_power_flow)
         > Max(20000, 15 * Abs(ss.forced_power_flow))

\* C5: a forced-charge execute without mode_transition, called while the commanded
\* forced power is not realized, issues no service call and leaves last_command_time
\* as it was; when the forced power is realized, or none is commanded, or the call is
\* a mode transition, the gate is not what returns.
C5_RealizationGateForcedCharge ==
    IsToolCall(FC, "execute") =>
        /\ (~ev.mode_transition /\ Unrealized(ev.ss)) =>
              /\ calls = <<>>
              /\ ~ev.ret
              /\ tools.lct[FC] = ev.pre.lct[FC]
        /\ (ev.mode_transition \/ ~Unrealized(ev.ss)) => ev.why # "not_realized"

C5_Witness ==
    /\ IsToolCall(FC, "execute")
    /\ ~ev.mode_transition
    /\ Unrealized(ev.ss)
    /\ ev.target = 2000
    /\ ev.ha.forced.kind = "Charging" /\ ev.ha.forced.w = 1000
    /\ ev.pre.lct[FC] = AgeCap
    /\ calls = <<>>

\* C6 (as stated): of consecutive forced-discharge attempts made while the forced
\* power is not realized, without mode transition or emergency, the first three are
\* suppressed and the fourth is not.
C6_ThreeSuppressedThenIssued ==
    (IsToolCall(FD, "execute") /\ ~ev.mode_transition /\ ~ev.emergency
        /\ Unrealized(ev.ss)) =>
        /\ ev.pre.nrc < 3 => ev.why = "not_realized"
        /\ ev.pre.nrc = 3 => ev.why # "not_realized"

Cooldown(tool) ==
    IF tool \in {FC, FD} THEN forced_charge_discharge_cooldown
    ELSE IF tool = EL THEN export_limit_cooldown
    ELSE charging_adjustment_cooldown

ForcedActive(tool, forced) ==
    \/ tool = FC /\ forced.kind = "Charging"
    \/ tool = FD /\ forced.kind = "Discharging"

\* C7: a tool's execute or stop issues a service call only when at least the tool's
\* cooldown has passed since its last issued command, or the call is a forced-power
\* execute with an override: mode transition, emergency, or the forced operation not
\* being active yet.  A call rejected by the cooldown issues nothing and leaves
\* last_command_time as it was.
C7_CooldownRespected ==
    ev.h = "tool" =>
        LET override ==
                /\ ev.op = "execute"
                /\ ev.tool \in {FC, FD}
                /\ \/ ev.mode_transition
                   \/ ev.emergency
                   \/ ~ForcedActive(ev.tool, ev.ha.forced)
        IN  /\ calls # <<>> => (ev.pre.lct[ev.tool] >= Cooldown(ev.tool) \/ override)
            /\ ev.why = "cooldown" =>
                  /\ calls = <<>>
                  /\ tools.lct = ev.pre.lct
                  /\ ev.pre.lct[ev.tool] < Cooldown(ev.tool)

C7_Witness ==
    /\ IsToolCall(FC, "stop")
    /\ ev.why = "cooldown"
    /\ ev.pre.lct[FC] = 4
    /\ tools.lct[FC] = 4
    /\ calls = <<>>

\* what a tool's target is compared with: the value its entity shows
Observed(tool, ha) ==
    IF tool = FC THEN Max(0, get_current_forced_power(ha.forced))
    ELSE IF tool = FD THEN Max(0, -get_current_forced_power(ha.forced))
    ELSE IF tool = CA THEN ha.climit
    ELSE IF tool = DL THEN ha.dlimit
    ELSE get_current_export_limit(ha.export).limit

\* C8 (as stated): execute with a target equal to the value the tool's entity shows
\* issues no service call and leaves last_command_time as it was, for each of the five
\* tools and every value shown, 0 W with no forced operation active and an export
\* limit of zero included.
C8_ExecuteSameIsNoOp ==
    (ev.h = "tool" /\ ev.op = "execute" /\ ev.ha.export.kind # "Unknown"
        /\ ev.target = Observed(ev.tool, ev.ha)) =>
        /\ calls = <<>>
        /\ tools.lct = ev.pre.lct

-----------------------------------------------------------------------------
(* Properties of the control cycle.                                        *)

\* a control cycle that ran past mode determination
PastModeDetermination ==
    ev.h = "cycle" /\ ev.stage \notin {"actions_off", "no_state", "no_mode"}

CallsOf(svc) == SelectSeq(calls, LAMBDA x : x.svc = svc)

\* C1 (as stated): in a control cycle that runs past mode determination with the
\* heating switch on, the discharge limit at the end of the cycle is 0 W - the last
\* set-discharge-limit command of the cycle sets 0, or there is none and the limit is
\* observed as 0 - and the cycle issues no forcible-discharge command.
C1_HeatingInterlock ==
    (PastModeDetermination /\ ev.ha.heating = "on") =>
        /\ LET dl == CallsOf("set_discharge_limit")
           IN  IF dl = <<>> THEN ev.ha.dlimit = 0 ELSE dl[Len(dl)].v = 0
        /\ CallsOf("forcible_discharge_soc") = <<>>

\* C2 (as stated): with the heating switch on, a control cycle in a mode other than
\* buy and frrdown ends right after the interlock: the mode manager and the balancing
\* issue nothing.
C2_HeatingSkipsBalancing ==
    (PastModeDetermination /\ ev.ha.heating = "on" /\ ev.mode \notin {"buy", "frrdown"}) =>
        /\ ev.stage = "protection_skip"
        /\ Len(calls) = ev.n_protect

\* the calls of the mode manager's initial state and primary tool
InitCalls == SubSeq(calls, ev.n_protect + 1, ev.n_init)

HasCall(q, svc, v) == \E k \in 1..Len(q) : q[k].svc = svc /\ q[k].v = v

LimitOf(setting) == IF setting = "zero" THEN 0 ELSE max_battery_power

\* C3 (as stated): a control cycle in which the mode manager sees the (mode, source)
\* pair change issues, before any balancing action, every command of the new mode's
\* initial-state row that is not in place already: the stop of a forced charge or
\* discharge that is active, the export limit, the charging limit, the discharge
\* limit - whatever the tools' cooldown timers are.
C3_InitialStateApplied ==
    (ev.h = "cycle" /\ ev.changed) =>
        LET row == mode_initial_states[ev.mode]
        IN  /\ ev.ha.forced.kind \in {"Charging", "Discharging"} =>
                  HasCall(InitCalls, "stop_forcible_charge", 0)
            /\ row.export_limit = "maximum" =>
                  \/ HasCall(InitCalls, "reset_maximum_feed_grid_power", 0)
                  \/ get_current_export_limit(ev.ha.export).mode = "unlimited"
            /\ \/ HasCall(InitCalls, "set_charge_limit", LimitOf(row.charging_limit))
               \/ ev.ha.climit = LimitOf(row.charging_limit)
            /\ \/ HasCall(InitCalls, "set_discharge_limit", LimitOf(row.discharge_limit))
               \/ ev.ha.dlimit = LimitOf(row.discharge_limit)

\* C4 (as stated): a control cycle in which the mode manager sees a transition into
\* buy (sell) with qw_powerlimit P > 0 issues a forcible-charge (forcible-discharge)
\* command at P W as the last command of the mode manager, after the initial-state
\* commands, whatever the forced tool's cooldown and the realization gate say.
C4_PrimaryToolOnEntry ==
    (ev.h = "cycle" /\ ev.changed /\ ev.mode \in {"buy", "sell"} /\ ev.ha.powerlimit > 0) =>
        /\ ev.n_init > ev.n_protect
        /\ calls[ev.n_init].svc = IF ev.mode = "buy" THEN "forcible_charge_soc"
                                  ELSE "forcible_discharge_soc"
        /\ calls[ev.n_init].v = ev.ha.powerlimit

NineModes ==
    {"normal", "limitexport", "pvsell", "nobattery", "savebattery", "buy", "sell",
     "frrup", "frrdown"}

\* the claim's rule: kratt for frrup and frrdown only, one of the four others else
SourcePermitted(mode, source) ==
    IF mode \in {"frrup", "frrdown"} THEN source = "kratt"
    ELSE source \in {"timer", "notimer", "optimizer", "manual"}

\* a control cycle that got as far as reading mode and source
ReadMode == ev.h = "cycle" /\ ev.stage \notin {"actions_off", "no_state"}

\* C9: a control cycle whose mode text is none of the nine modes, or whose source is
\* not permitted for its mode (kratt for frrup and frrdown only; timer, notimer,
\* optimizer or manual for the others), issues no command and leaves the mode
\* manager's recorded mode and source, and every tool, as they were; a cycle whose
\* pair is valid goes on under that mode.
C9_InvalidModeOrSourceNoCommand ==
    ReadMode =>
        IF ev.qw_mode \in NineModes /\ SourcePermitted(ev.qw_mode, ev.qw_source)
        THEN ev.stage # "no_mode" /\ ev.mode = ev.qw_mode
        ELSE /\ ev.stage = "no_mode"
             /\ calls = <<>>
             /\ mode_manager = ev.pre.mm
             /\ tools = ev.pre.tools

C9_Witness ==
    /\ ReadMode
    /\ ev.qw_mode = "frrup" /\ ev.qw_source = "optimizer"
    /\ ev.pre.mm.current_mode = "normal"
    /\ ev.ha.phases[1] = Num(fast_trigger_threshold)
    /\ ev.stage = "no_mode"
    /\ calls = <<>>

\* a critical entity without a usable reading in the cycle recorded: it reads as None
\* now and the cache holds nothing for it, or something older than its invalid_age
NoValidReading(e) ==
    /\ IsNone(e, Reading(ev.ha, e))
    /\ \/ ev.pre.sd[e].age = Uncached
       \/ ev.pre.sd[e].age > invalid_age(e)

\* the value a phase has in the cycle recorded is no number
PhaseNotNumeric(e) ==
    LET x == IF IsNone(e, Reading(ev.ha, e)) THEN ev.pre.sd[e].value
             ELSE Reading(ev.ha, e)
    IN  x.k # "num"

CriticalInvalid ==
    \/ \E e \in {"phase_a", "phase_b", "phase_c", "total", "soc", "battery_power",
                 "target"} : NoValidReading(e)
    \/ \E e \in {"phase_a", "phase_b", "phase_c"} : PhaseNotNumeric(e)

\* C10: a control cycle (actions enabled) in which a critical entity has no cached
\* reading or one older than its invalid_age, or a phase is not numeric, builds no
\* system state and issues no command; a cycle in which every critical reading is
\* valid builds the state and goes on.
C10_InvalidCriticalNoCommand ==
    (ev.h = "cycle" /\ ev.stage # "actions_off") =>
        IF CriticalInvalid
        THEN /\ ev.stage = "no_state"
             /\ calls = <<>>
             /\ tools = ev.pre.tools
             /\ mode_manager = ev.pre.mm
        ELSE ev.stage # "no_state"

\* commands resume: phase A, cached but past its invalid_age, reads again and the
\* cycle issues commands
C10_Witness ==
    /\ ev.h = "cycle"
    /\ ev.pre.sd["phase_a"].age > power_invalid_age
    /\ ev.ha.phases[1] = Num(-500)
    /\ ~CriticalInvalid
    /\ ev.stage = "balancing"
    /\ calls # <<>>

\* ... and before that, a cycle skipped because the cached phase A had just passed
\* its invalid_age
C10_StaleSkipped ==
    /\ ev.h = "cycle"
    /\ ev.pre.sd["phase_a"].age = power_invalid_age + 1
    /\ ev.pre.sd["phase_a"].value = Num(-500)
    /\ ev.ha.phases[1] = None
    /\ ev.stage = "no_state"

\* C11: a control cycle, started by a timer or by the fast trigger, that finds the
\* actions switch off issues no service call and leaves the mode manager's recorded
\* mode and source, the previous-heating flag and every tool's cooldown timestamp as
\* they were.
C11_ActionsOffNoEffect ==
    (ev.h = "cycle" /\ ev.ha.actions # "on") =>
        /\ ev.stage = "actions_off"
        /\ calls = <<>>
        /\ mode_manager = ev.pre.mm
        /\ previous_heating_active = ev.pre.pha
        /\ tools.lct = ev.pre.tools.lct

\* a fast-triggered cycle with a phase in deficit and the switch off
C11_Witness ==
    /\ ev.h = "cycle" /\ ev.trigger = "fast_trigger"
    /\ ev.ha.actions = "off"
    /\ ev.ha.phases[1] = Num(fast_trigger_threshold)
    /\ calls = <<>>

\* the first cycle after startup with the switch off: no mode recorded yet, none after
C11_FirstCycleOff ==
    /\ ev.h = "cycle" /\ ev.trigger = "run_in"
    /\ ev.ha.actions = "off"
    /\ ev.pre.mm = NoManager
    /\ mode_manager = NoManager

\* the lowest of the three phases the cycle recorded has read
MinPhase == SeqMin([i \in 1..3 |-> ev.ha.phases[i].v])

WithinRange == ev.ha.range_low <= MinPhase /\ MinPhase <= ev.ha.range_high

\* the desired state of the cycle recorded
DesiredOfCycle ==
    calculate_desired_state(sensor_data, ev.ha, get_system_state(sensor_data, ev.ha),
                            ev.mode)

\* C12: in every mode, a control cycle that runs past mode determination with the
\* lowest phase inside the target range, ends included, computes a desired state with
\* battery_flow_change = 0 and proposes and executes no balancing action: it issues
\* nothing after the mode manager's commands.
C12_WithinRangeNoAction ==
    (PastModeDetermination /\ WithinRange) =>
        /\ DesiredOfCycle.ok
        /\ DesiredOfCycle.battery_flow_change = 0
        /\ ev.stage = "balancing"
        /\ Len(calls) = ev.n_init

\* the lowest phase exactly at range_low in mode normal with the mode unchanged
C12_Witness ==
    /\ PastModeDetermination /\ WithinRange
    /\ MinPhase = ev.ha.range_low
    /\ ev.mode = "normal" /\ ~ev.changed
    /\ ev.stage = "balancing"
    /\ calls = <<>>

\* one watt below the range the same cycle acts
C12_BelowRangeActs ==
    /\ PastModeDetermination
    /\ MinPhase = ev.ha.range_low - 1
    /\ ev.mode = "normal" /\ ~ev.changed
    /\ Len(calls) > ev.n_init

\* the actions the cycle recorded proposes for its desired state (heating off)
ProposedOfCycle ==
    LET ss == get_system_state(sensor_data, ev.ha)
        flow == DesiredOfCycle.battery_flow_change
    IN  calculate_proposed_actions(ss, ss, flow, get_tool_sequence(ev.mode, flow > 0),
                                   ev.mode).actions

\* D of the claim: minus the total power adjustment 3 * (min(phases) - target)
DeficitWatts == 3 * (ev.ha.target.v - MinPhase)

NormalDeficit ==
    /\ PastModeDetermination
    /\ ev.mode = "normal"
    /\ ev.ha.heating = "off"
    /\ ev.ha.soc.v > battery_soc_minimum_for_discharging
    /\ ev.ha.battery_power = Num(0)
    /\ ev.ha.forced = Stopped
    /\ MinPhase < ev.ha.range_low
    /\ DeficitWatts >= minimum_discharge_change_watts
    /\ DeficitWatts <= Min(ev.ha.dlimit, max_battery_power)

\* C13 (as stated): in mode normal with heating off, the SOC above the minimum, the
\* battery idle, no forced flow and the lowest phase below the range by a total
\* adjustment of -D, 10 <= D <= min(discharging limit, max battery power), the cycle
\* proposes a forced-discharging action with target D.
C13_NormalDeficitDischarges ==
    NormalDeficit =>
        \E k \in 1..Len(ProposedOfCycle) : ProposedOfCycle[k] = Action(FD, DeficitWatts)

\* a call of the phase listener, and one that went on to run the control loop
PhaseListenerCalled ==
    ev.h = "phase_update" \/ (ev.h = "cycle" /\ ev.trigger = "fast_trigger")

LoopInvoked == ev.h = "cycle" /\ ev.trigger = "fast_trigger"

\* (a), (b): the history of the phase updated holds two readings, the new one last,
\* both at or below the threshold
TwoLowReadings ==
    \E i \in (IF ev.h = "phase_update" THEN {ev.phase} ELSE ListenedPhases) :
        LET h == fast_trigger.phase_history[i]
        IN  /\ Len(h) = 2
            /\ h[2] = ev.ha.phases[i].v
            /\ h[1] <= -300 /\ h[2] <= -300

\* (c), (e): the mode and the heating flag as the balancer knows them when the
\* listener is called, through the data manager
ModeKnown ==
    determine_current_mode(get_sensor_value(ev.pre.sd, ev.ha, "mode", TRUE),
                           get_sensor_value(ev.pre.sd, ev.ha, "source", TRUE))

HeatingKnown == get_sensor_value(ev.pre.sd, ev.ha, "heating", TRUE) = "on"

\* (d): seconds since last_control_loop_execution
IntervalPassed == ev.pre.ft.last_execution >= 10

\* C14: a numeric update of a phase sensor makes the fast trigger run the control loop
\* if and only if that phase's history holds two readings, both <= -300 W, the current
\* mode is normal, limitexport or pvsell, at least 10 s have passed since
\* last_control_loop_execution and heating is not active; an update that does not run
\* the loop issues no command and leaves the tools and the mode manager alone.
C14_FastTriggerCondition ==
    PhaseListenerCalled =>
        /\ LoopInvoked <=>
              /\ TwoLowReadings
              /\ ModeKnown \in {"normal", "limitexport", "pvsell"}
              /\ IntervalPassed
              /\ ~HeatingKnown
        /\ ~LoopInvoked =>
              /\ calls = <<>>
              /\ tools = ev.pre.tools
              /\ mode_manager = ev.pre.mm

\* the loop run by the second low reading
C14_Witness ==
    /\ LoopInvoked
    /\ TwoLowReadings
    /\ ModeKnown = "pvsell"
    /\ IntervalPassed
    /\ ~HeatingKnown

\* the same update dropped because heating is active
C14_HeatingDropped ==
    /\ ev.h = "phase_update"
    /\ TwoLowReadings
    /\ ModeKnown = "normal"
    /\ IntervalPassed
    /\ HeatingKnown

\* ... because of the lockout, the mode, or a reading above the threshold
C14_LockoutDropped ==
    /\ ev.h = "phase_update"
    /\ TwoLowReadings
    /\ ModeKnown = "normal"
    /\ ~IntervalPassed
    /\ ~HeatingKnown

C14_ModeDropped ==
    /\ ev.h = "phase_update"
    /\ TwoLowReadings
    /\ ModeKnown = "buy"
    /\ IntervalPassed
    /\ ~HeatingKnown

C14_HighReadingDropped ==
    /\ ev.h = "phase_update"
    /\ fast_trigger.phase_history[1] = <<-300, -299>>
    /\ ModeKnown = "normal"
    /\ IntervalPassed
    /\ ~HeatingKnown

\* seconds since a timer last started the control loop, at most: the periodic timer
\* fires when run_every reaches 0 and is then set to the period again (before its
\* first firing the cycle of run_in has started later still)
SinceTimerCycle == control_period - timers.run_every

\* C15 (as stated): a fast-triggered execution of the control loop never starts less
\* than 10 s after the start of the previous execution, whether the periodic timer or
\* the fast trigger started that one.
C15_MinimumInterval ==
    LoopInvoked =>
        /\ ev.pre.ft.last_execution >= 10
        /\ SinceTimerCycle >= 10

\* the SOC as the data manager gives it after the cycle recorded
SocKnown == get_sensor_value(sensor_data, ev.ha, "soc", TRUE)

\* C16: after every control cycle that reaches the subscription update with a known
\* SOC, the fast trigger listens to the three phase sensors if and only if the SOC is
\* above 6 %, whatever the SOC was in the cycles before; at no time are there more
\* listeners than one for each phase.
C16_SocGating ==
    /\ fast_trigger.listeners \in {0, 3}
    /\ (PastModeDetermination /\ SocKnown.k = "num") =>
          (fast_trigger.listeners = 3 <=> SocKnown.v > 6)

\* the SOC falls from 7 to 6 between two cycles: the listeners are cancelled
C16_Witness ==
    /\ PastModeDetermination
    /\ ev.pre.sd["soc"].value = Num(7) /\ ev.pre.ft.listeners = 3
    /\ SocKnown = Num(6)
    /\ fast_trigger.listeners = 0

\* ... and registered again when it is back at 7
C16_Resubscribed ==
    /\ PastModeDetermination
    /\ ev.pre.sd["soc"].value = Num(6) /\ ev.pre.ft.listeners = 0
    /\ SocKnown = Num(7)
    /\ fast_trigger.listeners = 3

\* a cycle with the SOC above the minimum while the listeners are registered
C16_SubscribedTwice ==
    /\ PastModeDetermination
    /\ ev.pre.ft.listeners = 3
    /\ SocKnown = Num(7)
    /\ fast_trigger.listeners = 3

-----------------------------------------------------------------------------
(* Properties of the price manager.                                        *)

Fetched == lev.op = "fetch"

WindowStart(d) == Midnight(d - 1) + window_hour * quarters_per_hour

\* C17: every list that fetch_prices_for_date returns, from the API, from the
\* fallback or from the cache, has exactly 96 slots, the slot_index of each is its
\* position 0..95, and the timestamps increase by one quarter-hour from slot to slot.
C17_SlotCount ==
    Fetched =>
        /\ Len(lev.prices) = slots_per_day
        /\ \A p \in 1..Len(lev.prices) : lev.prices[p].slot_index = p - 1
        /\ \A p \in 1..(Len(lev.prices) - 1) :
              lev.prices[p + 1].timestamp = lev.prices[p].timestamp + 1

\* C18: whatever the origin of the list, slot i carries the timestamp 22:00 of the
\* day before the target date plus i quarter-hours, and the hour of that time.
C18_Window ==
    Fetched =>
        \A p \in 1..Len(lev.prices) :
            /\ lev.prices[p].timestamp = WindowStart(lev.date) + (p - 1)
            /\ lev.prices[p].hour = HourOf(WindowStart(lev.date) + (p - 1))

-----------------------------------------------------------------------------
(* Properties of the scheduler.                                            *)

Scheduled == lev.op = "schedule"

Unmarked(prices) ==
    \A p \in DOMAIN prices : ~prices[p].always_on /\ ~prices[p].always_off

OnHourSlots(device) ==
    HourSlots(_parse_hour_ranges(device.always_on_hours), slots_per_day)
OffHourSlots(device) ==
    HourSlots(_parse_hour_ranges(device.always_off_hours), slots_per_day)

BelowOnPrice(device, slot) ==
    device.always_on_price # None /\ slot.total_price < device.always_on_price.v

\* Every mark on the copy comes from the constraints of the device itself
OwnMarks(device, device_prices) ==
    \A p \in DOMAIN device_prices :
        /\ device_prices[p].always_off => (p - 1) \in OffHourSlots(device)
        /\ device_prices[p].always_on =>
              \/ (p - 1) \in OnHourSlots(device)
              \/ BelowOnPrice(device, device_prices[p])

\* C19: after the time constraints and the always_on_price constraint were applied
\* to a device's copy of the slots, no slot of it is both always_on and always_off;
\* the marks on the copy are those of the device itself, and the shared price
\* slots, which the cache holds, carry no mark.
C19_OffDominatesOn ==
    Scheduled =>
        /\ \A k \in DOMAIN lev.results :
              /\ \A p \in DOMAIN lev.results[k].device_prices :
                    ~(/\ lev.results[k].device_prices[p].always_on
                      /\ lev.results[k].device_prices[p].always_off)
              /\ OwnMarks(devices[lev.results[k].device], lev.results[k].device_prices)
        /\ \A d \in DOMAIN price_cache : Unmarked(price_cache[d])

\* Two devices were scheduled; an hour of the first is both in its always-on and
\* in its always-off hours, and a slot of the second is cheaper than its
\* always_on_price but within its always-off hours
C19_Witness ==
    /\ Scheduled
    /\ Len(lev.results) = 2
    /\ OnHourSlots(devices[1]) \cap OffHourSlots(devices[1]) # {}
    /\ \E p \in DOMAIN lev.results[2].device_prices :
          /\ BelowOnPrice(devices[2], lev.results[2].device_prices[p])
          /\ lev.results[2].device_prices[p].always_off
    /\ \E p \in DOMAIN lev.results[1].device_prices :
          /\ lev.results[1].device_prices[p].always_on
          /\ ~lev.results[2].device_prices[p].always_on

TrueSlots(slots, from, to) == Cardinality({p \in (from + 1)..to : slots[p]})
SeedSlots(device_prices, from, to) ==
    Cardinality({p \in (from + 1)..to : device_prices[p].always_on})

\* C20: for every PERIOD device, every slot marked always_on is on in the schedule,
\* and in every period the number of slots on is at least the number of always-on
\* slots and at most period_hours * 4, whatever the requirement per period, 0
\* included.
C20_AlwaysOnSeeds ==
    Scheduled =>
        \A k \in DOMAIN lev.results :
            devices[lev.results[k].device].schedule_mode = "period" =>
                /\ \A p \in DOMAIN lev.results[k].device_prices :
                      lev.results[k].device_prices[p].always_on
                          => lev.results[k].slots[p]
                /\ \A i \in 0..(NumPeriods(devices[lev.results[k].device]) - 1) :
                      /\ TrueSlots(lev.results[k].slots,
                             i * SlotsPerPeriod(devices[lev.results[k].device]),
                             (i + 1) * SlotsPerPeriod(devices[lev.results[k].device]))
                         >= SeedSlots(lev.results[k].device_prices,
                             i * SlotsPerPeriod(devices[lev.results[k].device]),
                             (i + 1) * SlotsPerPeriod(devices[lev.results[k].device]))
                      /\ TrueSlots(lev.results[k].slots,
                             i * SlotsPerPeriod(devices[lev.results[k].device]),
                             (i + 1) * SlotsPerPeriod(devices[lev.results[k].device]))
                         <= devices[lev.results[k].device].period_hours
                            * quarters_per_hour

ResultDevice(k) == devices[lev.results[k].device]

\* The slots of a period that are neither always_off nor always_on
FreeSlots(device_prices, from, to) ==
    Cardinality({p \in (from + 1)..to :
                    ~device_prices[p].always_off /\ ~device_prices[p].always_on})

\* C21: for a PERIOD device without weather adjustment that asks for N =
\* desired_on_hours * 4 > 0 slots, every period holds its always-on slots and N
\* further slots, or all the slots that are neither off nor on when they are fewer.
C21_AdditiveAlwaysOn ==
    Scheduled =>
        \A k \in DOMAIN lev.results :
            (/\ ResultDevice(k).schedule_mode = "period"
             /\ ~ResultDevice(k).weather_adjustment
             /\ ResultDevice(k).desired_on_hours # None
             /\ ResultDevice(k).desired_on_hours.v > 0) =>
                \A i \in 0..(NumPeriods(ResultDevice(k)) - 1) :
                    TrueSlots(lev.results[k].slots,
                              i * SlotsPerPeriod(ResultDevice(k)),
                              (i + 1) * SlotsPerPeriod(ResultDevice(k)))
                    = SeedSlots(lev.results[k].device_prices,
                                i * SlotsPerPeriod(ResultDevice(k)),
                                (i + 1) * SlotsPerPeriod(ResultDevice(k)))
                      + Min(ResultDevice(k).desired_on_hours.v * quarters_per_hour,
                            FreeSlots(lev.results[k].device_prices,
                                      i * SlotsPerPeriod(ResultDevice(k)),
                                      (i + 1) * SlotsPerPeriod(ResultDevice(k))))

\* C22: a run of the daily calculation that follows a run with the same date, the
\* same prices, the same forecast and the same answers of the Shellys leaves the
\* same scheduled_slots for every device, creates the same timespecs and as many
\* schedules.
C22_Idempotent == (Scheduled /\ lev.repeat) => (lev.same_slots /\ lev.same_shelly)

\* A repeated run that scheduled two devices, created schedules for both and
\* found the schedule ids of the run before on the devices
C22_Witness ==
    /\ Scheduled
    /\ lev.repeat
    /\ lev.reachable
    /\ lev.shelly.devices_updated = 2
    /\ lev.shelly.created > 2
    /\ \E k \in DOMAIN lev.results :
          \E p \in DOMAIN lev.results[k].device_prices :
              lev.results[k].device_prices[p].always_on

-----------------------------------------------------------------------------
(* Properties of the debt tracker and of the persistence file.             *)

\* A tick that found the slot of its minute
Ticked == lev.op = "tick" /\ lev.slot # None

ScheduledOn(k) == devices[k].scheduled_slots[lev.slot.v + 1]

DebtBefore(k) == lev.devices[k].energy_debt

\* C23: from a debt within 0..max_energy_debt a tick changes the debt of an enabled
\* device by +1 when it is scheduled on and found off (not beyond the maximum), by
\* -1 when it is scheduled off and found on (not below 0), and by 0 otherwise, a
\* tick that commands a recovery included; the debt stays within 0..max_energy_debt.
C23_DebtAccounting ==
    Ticked =>
        \A k \in DOMAIN devices :
            (/\ devices[k].scheduling_enabled
             /\ DebtBefore(k) \in 0..devices[k].max_energy_debt) =>
                /\ devices[k].energy_debt \in 0..devices[k].max_energy_debt
                /\ devices[k].energy_debt =
                      IF ScheduledOn(k) /\ ~lev.actual[k]
                      THEN IF DebtBefore(k) = devices[k].max_energy_debt
                           THEN DebtBefore(k) ELSE DebtBefore(k) + 1
                      ELSE IF ~ScheduledOn(k) /\ lev.actual[k]
                           THEN IF DebtBefore(k) = 0 THEN 0 ELSE DebtBefore(k) - 1
                           ELSE DebtBefore(k)
                /\ k \in lev.turned_on => devices[k].energy_debt = DebtBefore(k)

C23_Witness ==
    /\ Ticked
    /\ \E k \in DOMAIN devices :
          /\ devices[k].scheduling_enabled
          /\ ScheduledOn(k)
          /\ ~lev.actual[k]
          /\ DebtBefore(k) > 0
          /\ devices[k].energy_debt = DebtBefore(k) + 1

\* The slots a recovery may use: unscheduled, within the look-ahead and the
\* schedule, and not above max_recovery_price
Eligible(device, price_slots, current) ==
    {i \in current..(slots_per_day - 1) :
        /\ i < current + device.recovery_window_hours * quarters_per_hour
        /\ ~device.scheduled_slots[i + 1]
        /\ \/ device.max_recovery_price = None
           \/ price_slots[i + 1].total_price <= device.max_recovery_price.v}

\* The current slot is one of the n cheapest of them
AmongCheapest(device, price_slots, current, n) ==
    /\ current \in Eligible(device, price_slots, current)
    /\ Cardinality({i \in Eligible(device, price_slots, current) :
                       price_slots[i + 1].total_price
                           < price_slots[current + 1].total_price}) < n

\* C24: a tick commands a device on exactly when the device is enabled, the current
\* slot is unscheduled, the device is found off, its debt is above 0, qw_mode is
\* neither frrup nor frrdown, and the current slot is among the ceil(debt/15)
\* cheapest eligible slots of the recovery window.
C24_Recovery ==
    Ticked =>
        \A k \in DOMAIN devices :
            k \in lev.turned_on <=>
                /\ devices[k].scheduling_enabled
                /\ ~ScheduledOn(k)
                /\ ~lev.actual[k]
                /\ devices[k].energy_debt > 0
                /\ lev.qw_mode \notin {"frrup", "frrdown"}
                /\ AmongCheapest(devices[k], price_slots_of(price_cache, app),
                                 lev.slot.v,
                                 (devices[k].energy_debt + 14) \div 15)

C24_Witness ==
    /\ Ticked
    /\ \E k \in lev.turned_on :
          /\ devices[k].energy_debt = 30
          /\ Cardinality(Eligible(devices[k], price_slots_of(price_cache, app),
                                  lev.slot.v)) > 2

\* What a file holds besides the debts
OtherContent(file) ==
    [f \in DOMAIN file |->
        IF f = "devices"
        THEN [i \in DOMAIN file.devices |->
                 [g \in DOMAIN file.devices[i] \ {"energy_debt"} |->
                     file.devices[i][g]]]
        ELSE file[f]]

DebtWritten == (Ticked \/ lev.op = "reset") /\ lev.wrote /\ lev.file # None

\* C25: a tick or a reset that changes a debt writes only the energy_debt fields of
\* the file that exists; the prices, slots, calculated_at and recent_recoveries of
\* the file are the same before and after the write.
C25_FieldWise == DebtWritten => OtherContent(disk) = OtherContent(lev.file)

\* C26: a restart from a file that holds the state of the application restores the
\* slots and the debt of every device and the recent recoveries.
C26_RoundTrip ==
    (lev.op = "restart" /\ lev.saved) =>
        /\ \A k \in DOMAIN devices :
              /\ devices[k].energy_debt = lev.devices[k].energy_debt
              /\ devices[k].scheduled_slots = lev.devices[k].scheduled_slots
        /\ app.recent_recoveries = lev.recent_recoveries

-----------------------------------------------------------------------------
(* Properties of the load switching tool.                                  *)

Switched == lev.op = "switch" /\ lev.result.action = "load_switching"

\* The power that is still needed before the load at place p is taken
NeedBefore(p) ==
    Abs(lev.power_needed)
        - (IF p = 1 THEN 0
           ELSE switch_loads(devices, SubSeq(lev.result.loads, 1, p - 1), 1,
                             Abs(lev.power_needed) + 1, <<>>, 0).power)

\* C27: the loads chosen for frrup are enabled and on (a weather-adjusted one only
\* with its minimum slots delivered), those for frrdown enabled and off; they are
\* taken in descending estimated power, each fits within the need that remains, and
\* their total estimated power does not exceed the power needed.
C27_GreedyFit ==
    Switched =>
        /\ \A p \in DOMAIN lev.result.loads :
              /\ devices[lev.result.loads[p]].scheduling_enabled
              /\ lev.is_on[lev.result.loads[p]] = (lev.mode = "frrup")
              /\ lev.mode = "frrup" =>
                    commitment_met(devices[lev.result.loads[p]], clock)
              /\ p > 1 => devices[lev.result.loads[p - 1]].estimated_power
                             >= devices[lev.result.loads[p]].estimated_power
              /\ devices[lev.result.loads[p]].estimated_power <= NeedBefore(p)
        /\ lev.result.power <= Abs(lev.power_needed)

-----------------------------------------------------------------------------
(* Properties of the control cycle in debug mode and of the tool walk.     *)

\* C28: with debug_mode on a control cycle issues no service call, whatever the mode,
\* also when it handles a mode transition, the heating interlock or the restore of
\* the discharge limit after heating.
C28_DebugReadOnly == (debug_mode /\ ev.h = "cycle") => calls = <<>>

\* The walk of the cycle: the tool sequence of the mode, in the order of the cycle
WalkOfCycle ==
    calculate_proposed_actions(
        get_system_state(sensor_data, ev.ha), get_system_state(sensor_data, ev.ha),
        DesiredOfCycle.battery_flow_change,
        get_tool_sequence(
            ev.mode,
            IF ev.mode \in mfrr_modes
            THEN \/ ev.mode = "frrup" /\ DesiredOfCycle.battery_flow_change > 0
                 \/ ev.mode = "frrdown" /\ DesiredOfCycle.battery_flow_change < 0
            ELSE DesiredOfCycle.battery_flow_change > 0),
        ev.mode)

\* A cycle in frrup or frrdown that comes to the walk with a flow to adjust
MfrrWalk ==
    /\ ev.h = "cycle"
    /\ ev.mode \in mfrr_modes
    /\ ev.stage \in {"balancing", "walk_raised"}
    /\ DesiredOfCycle.battery_flow_change # 0

\* C29: in frrup and frrdown a cycle whose grid flow is to be adjusted by more than
\* the deadband walks the whole tool sequence of the mode, load_switching first, and
\* executes the actions the walk has gathered.
C29_MfrrWalk == MfrrWalk => (~WalkOfCycle.error /\ ev.stage = "balancing")

\* The charging limit is at its maximum when the action at place i is proposed: the
\* cycle found it there, the mode manager has set it there, or an action before it
\* raises it there
ChargingMaxed(actions, i) ==
    \/ get_system_state(sensor_data, ev.ha).charging_rate_limit = max_battery_power
    \/ HasCall(InitCalls, "set_charge_limit", max_battery_power)
    \/ \E j \in 1..(i - 1) :
          actions[j].tool = CA /\ actions[j].target = max_battery_power

\* C30: in limitexport an export limitation is proposed only with the charging limit
\* at max_battery_power, found there or raised there by the charging adjustment of
\* the same walk.
C30_ExportAfterCharging ==
    (ev.h = "cycle" /\ ev.mode = "limitexport" /\ ev.stage = "balancing") =>
        \A i \in DOMAIN WalkOfCycle.actions :
            WalkOfCycle.actions[i].tool = EL =>
                ChargingMaxed(WalkOfCycle.actions, i)

-----------------------------------------------------------------------------
(* Further properties of the scheduler.                                    *)

\* C34: for a PERIOD or THRESHOLD device no slot marked always_off is on in the
\* schedule, also when the slot lies in the always-on hours, costs less than
\* always_on_price or is among the cheapest of its period.
C34_OffNeverScheduled ==
    Scheduled =>
        \A k \in DOMAIN lev.results :
            \A p \in DOMAIN lev.results[k].device_prices :
                lev.results[k].device_prices[p].always_off => ~lev.results[k].slots[p]

\* A slot of the always-on hours is off because it is always-off, and so is a slot
\* below always_on_price of the other device, while both devices have slots on
C34_Witness ==
    /\ Scheduled
    /\ Len(lev.results) = 2
    /\ \E p \in DOMAIN lev.results[1].device_prices :
          /\ lev.results[1].device_prices[p].always_off
          /\ (p - 1) \in OnHourSlots(devices[1])
          /\ ~lev.results[1].slots[p]
    /\ \E p \in DOMAIN lev.results[2].device_prices :
          /\ lev.results[2].device_prices[p].always_off
          /\ BelowOnPrice(devices[2], lev.results[2].device_prices[p])
          /\ ~lev.results[2].slots[p]
    /\ \A k \in 1..2 : \E p \in DOMAIN lev.results[k].slots : lev.results[k].slots[p]

\* The slots of a period that are not always_off
NotOffSlots(device_prices, from, to) ==
    Cardinality({p \in (from + 1)..to : ~device_prices[p].always_off})

\* C32: for a weather-adjusted PERIOD device with a requirement of N slots per
\* period the always-on slots count toward N, and every period ends with at least
\* N slots on, or with all its slots that are not always_off when they are fewer.
C32_WeatherRequirement ==
    Scheduled =>
        \A k \in DOMAIN lev.results :
            (/\ ResultDevice(k).schedule_mode = "period"
             /\ ResultDevice(k).weather_adjustment
             /\ ResultDevice(k).desired_on_hours # None
             /\ num_slots_per_period(ResultDevice(k), lev.forecast) > 0) =>
                \A i \in 0..(NumPeriods(ResultDevice(k)) - 1) :
                    TrueSlots(lev.results[k].slots,
                              i * SlotsPerPeriod(ResultDevice(k)),
                              (i + 1) * SlotsPerPeriod(ResultDevice(k)))
                        >= Min(num_slots_per_period(ResultDevice(k), lev.forecast),
                               NotOffSlots(lev.results[k].device_prices,
                                           i * SlotsPerPeriod(ResultDevice(k)),
                                           (i + 1) * SlotsPerPeriod(ResultDevice(k))))

Materialized == lev.op = "cron"

Places(method) == {i \in DOMAIN lev.requests : lev.requests[i].method = method}

\* The (hour, minute) start times the created timespecs stand for
StartTimes ==
    UNION {{<<lev.requests[i].hours[j], lev.requests[i].minute>> :
               j \in DOMAIN lev.requests[i].hours} : i \in Places("Schedule.Create")}

ScheduledTimes ==
    {<<(((p - 1) \div 4) + 22) % 24, ((p - 1) % 4) * 15>> :
        p \in {q \in DOMAIN lev.slots : lev.slots[q]}}

\* C33: for every slot pattern at most four schedules are created, one for every
\* minute offset 0/15/30/45 that has a scheduled slot, each switching to "not
\* inverted"; their start times are exactly the wall-clock times of the scheduled
\* slots; and all deletions precede the auto-off configuration, which precedes
\* all creations.
C33_CronRoundTrip ==
    Materialized =>
        /\ Cardinality(Places("Schedule.Create")) <= 4
        /\ \A i \in Places("Schedule.Create") :
              /\ lev.requests[i].on = ~devices[1].inverted_logic
              /\ lev.requests[i].minute \in {0, 15, 30, 45}
              /\ \A j \in Places("Schedule.Create") :
                    lev.requests[j].minute = lev.requests[i].minute => j = i
        /\ lev.reachable => StartTimes = ScheduledTimes
        /\ lev.reachable =>
              UNION {{<<h, s.minute>> : h \in s.hours} : s \in shelly[1]} = ScheduledTimes
        /\ \A d \in Places("Schedule.Delete"), c \in Places("Switch.SetConfig") : d < c
        /\ \A c \in Places("Switch.SetConfig"), n \in Places("Schedule.Create") : c < n
        /\ Cardinality(Places("Switch.SetConfig")) = 1

\* Schedules of an earlier run are replaced by the schedules of a pattern that
\* crosses midnight, on a device with inverted logic
C33_Witness ==
    /\ Materialized
    /\ lev.reachable
    /\ devices[1].inverted_logic
    /\ Cardinality(Places("Schedule.Delete")) > 10
    /\ Cardinality(Places("Schedule.Create")) = 4
    /\ <<23, 45>> \in StartTimes
    /\ <<0, 0>> \in StartTimes

-----------------------------------------------------------------------------
(* Further properties of the balancer.                                     *)

\* a cycle that runs past mode determination and finds the heating switch off after
\* a cycle (or the start-up) that found it on
HeatingWentOff ==
    /\ PastModeDetermination
    /\ ev.pre.pha = "True"
    /\ ev.ha.heating = "off"

\* C31: the first cycle that observes the heating switch going from on to off leaves
\* the discharge limit at the initial value of the mode in force (0 for nobattery
\* and savebattery, max_battery_power otherwise): the last set-discharge-limit
\* command of the cycle sets it, or there is none and the limit is observed at that
\* value - whenever the interlock command before it was issued and whether the
\* cycle was started by a timer or by the fast trigger.
C31_HeatingOffRestore ==
    HeatingWentOff =>
        LET dl == CallsOf("set_discharge_limit")
        IN  IF dl = <<>> THEN ev.ha.dlimit = restore_target(ev.mode)
            ELSE dl[Len(dl)].v = restore_target(ev.mode)

\* C35: in every cycle that reaches balancing under a mode, the initial state applied
\* last is that mode's; so after the actions switch went off, which applies the
\* initial state of normal, and on again, the mode's own initial state has been
\* applied again when balancing resumes.
C35_InitialStateInForce ==
    (ev.h = "cycle" /\ ev.stage = "balancing") =>
        /\ applied_mode \in ValidModes
        /\ mode_initial_states[applied_mode] = mode_initial_states[ev.mode]

\* the SOC is at or below the minimum for discharging, as Home Assistant has it and
\* as the cycle reads it through the cache
SocLow ==
    /\ ev.h = "cycle"
    /\ ev.ha.soc.k = "num"
    /\ ev.ha.soc.v <= battery_soc_minimum_for_discharging
    /\ get_sensor_value(ev.pre.sd, ev.ha, "soc", TRUE).v
         <= battery_soc_minimum_for_discharging

\* C36: no forcible-discharge service call is issued in a cycle that runs while the
\* SOC is at or below battery_soc_minimum_for_discharging - by the balancing walk,
\* through the override after three unrealized attempts, or as the primary command
\* on entry to mode sell.
C36_NoDischargeAtLowSoc ==
    SocLow => CallsOf("forcible_discharge_soc") = <<>>

\* the control cycle recorded was started by the fast trigger
FastTriggered == ev.h = "cycle" /\ ev.trigger = "fast_trigger"

\* C37: whenever the fast trigger fires for a phase, the two readings it compared
\* were both delivered during the current subscription: a reading kept from before
\* an unsubscribe is never paired with the first reading after the resubscribe.
C37_ConsecutiveSamples ==
    FastTriggered => \A i \in ListenedPhases : received[i] = phase_history_maxlen

C40_FallbackAlwaysUsable ==
    ev.h = "get_sensor_value" =>
        /\ ~is_invalid_sensor_value(ev.entity, ev.value)
        /\ ev.value = IF is_invalid_sensor_value(ev.entity, ev.found)
                      THEN get_fallback_value(ev.entity)
                      ELSE ev.found

\* C39: in mode normal with the heating off, the SOC above the minimum, the actions
\* on and valid sensors, a deficit that persists while the inverter does what it is
\* told leads to a forcible-discharge command after finitely many cycles, whatever
\* the charging limit and the battery power were at the start.
C39_DeficitServed == <>DischargeIssued

\* the command comes in a cycle that follows cycles which lowered the charging limit
\* step by step, the first cycle having started from the maximum
C39_Witness ==
    /\ DischargeIssued
    /\ ev.h = "cycle" /\ ~ev.changed
    /\ ev.ha.climit > 0 /\ ev.ha.climit < max_battery_power - 4000
    /\ ev.mode = "normal" /\ ev.ha.heating = "off" /\ ev.ha.actions = "on"
    /\ ev.ha.soc.v > battery_soc_minimum_for_discharging

====
